---- MODULE Spec2Model ----
(***************************************************************************)
(* Model of the Mode-3 reasoning engine of the pipeline,                   *)
(* src/llm_ontology_sparql_pipeline/src/ontology/graph_interrogator.py:    *)
(* entity identification, breadth-first path search, fact collection and   *)
(* report formatting; of the keyword retriever,                            *)
(* src/llm_ontology_sparql_pipeline/src/ontology/ontology_retriever.py;    *)
(* of the Hugging Face client,                                             *)
(* src/llm_ontology_sparql_pipeline/src/llm/hf_llm_caller.py;              *)
(* of the answer generation,                                               *)
(* src/llm_ontology_sparql_pipeline/src/llm/llm_response_generator.py;     *)
(* and of the SPARQL attempt loop,                                         *)
(* src/llm_ontology_sparql_pipeline/src/pipeline_cli.py.                   *)
(*                                                                         *)
(* Text is a sequence of one-character strings.  An RDF term is a record   *)
(* [kind, val]: kind "uri" (rdflib URIRef; val is the identifier cut into  *)
(* segments and the separators "#" and "/"), kind "lit" (rdflib Literal;   *)
(* val is its text) or kind "bnode" (rdflib BNode).  A triple is a tuple   *)
(* <<s, p, o>> and the graph a set of triples.  The order in which rdflib  *)
(* enumerates triples and the order in which list(set) enumerates a set    *)
(* are not fixed by either library: every enumeration picks one order.     *)
(***************************************************************************)
EXTENDS FiniteSets, Integers, Sequences, TLC

VARIABLES
    graph,              \* the rdflib Graph: a set of triples
    question,           \* the question string
    pc,                 \* position of the running call
    caller,             \* "test": _find_shortest_path called directly; "query": find_reasoning_path
    initial_entities,   \* find_reasoning_path: list returned by _identify_all_entities
    pair_index,         \* find_reasoning_path: position in permutations(initial_entities, 2)
    start_node,         \* arguments of the current / last _find_shortest_path call
    end_node,
    queue,              \* _find_shortest_path: deque of <<node, path>>
    visited,            \* _find_shortest_path: set of nodes
    result,             \* value returned by the last _find_shortest_path call
    path_found,         \* find_reasoning_path: path_found
    all_facts_triplets, \* find_reasoning_path: all_facts_triplets
    regime,             \* which branch of step 3 collected the facts
    report,             \* the dict returned by find_reasoning_path; the list of facts,
                        \* built in the iteration order of a set, is kept up to its order
    calls,              \* number of _find_shortest_path calls of the running query
    scans,              \* number of graph enumerations made by the running _find_shortest_path call
    first,              \* the path and the set of facts reported by the previous query
    invocations,        \* _find_shortest_path calls running interleaved: the locals of each
    retrieval,          \* retrieve_relevant_facts: its arguments, locals and return value
    hf_call,            \* call_hf_inference_api: environment, reply of the API, return value
    visits,             \* _find_shortest_path: how often the running call enqueued and dequeued
                        \* each node and met each triple in its two loops
    response,           \* generate_response_from_reasoning_path: argument, LLM calls, return value
    pipeline            \* main_pipeline: the attempt loop, its calls and how the run ended

vars == <<graph, question, pc, caller, initial_entities, pair_index, start_node,
          end_node, queue, visited, result, path_found, all_facts_triplets,
          regime, report, calls, scans, first, invocations, retrieval, hf_call,
          visits, response, pipeline>>

-----------------------------------------------------------------------------
(* Bounds of the model *)

MaxPathEdges == 3
MaxEdges == 3

-----------------------------------------------------------------------------
(* The values of the variables of a function that is not running *)

NoInvocation == <<>>
NoRetrieval == [pc |-> "idle"]
NoCall == [pc |-> "idle"]

\* a tally, element |-> number of times it was counted: the empty one
EmptyTally == [x \in {} |-> 0]
NoVisits ==
    [enqueued |-> EmptyTally, dequeued |-> EmptyTally,
     outgoing |-> EmptyTally, incoming |-> EmptyTally]
NoResponse == [pc |-> "idle"]
NoPipeline == [pc |-> "idle"]

-----------------------------------------------------------------------------
(* Text *)

UpperToLower ==
    [c \in {"A","B","C","D","E","F","G","H","I","J","K","L","M","N","O","P","Q",
            "R","S","T","U","V","W","X","Y","Z","É","È"} |->
        CASE c = "A" -> "a" [] c = "B" -> "b" [] c = "C" -> "c" [] c = "D" -> "d"
          [] c = "E" -> "e" [] c = "F" -> "f" [] c = "G" -> "g" [] c = "H" -> "h"
          [] c = "I" -> "i" [] c = "J" -> "j" [] c = "K" -> "k" [] c = "L" -> "l"
          [] c = "M" -> "m" [] c = "N" -> "n" [] c = "O" -> "o" [] c = "P" -> "p"
          [] c = "Q" -> "q" [] c = "R" -> "r" [] c = "S" -> "s" [] c = "T" -> "t"
          [] c = "U" -> "u" [] c = "V" -> "v" [] c = "W" -> "w" [] c = "X" -> "x"
          [] c = "Y" -> "y" [] c = "Z" -> "z" [] c = "É" -> "é" [] c = "È" -> "è"]

\* str.lower()
lower(text) ==
    [i \in 1..Len(text) |->
        IF text[i] \in DOMAIN UpperToLower THEN UpperToLower[text[i]] ELSE text[i]]

\* Python's  needle in haystack  on strings
IsSubstring(needle, haystack) ==
    \E i \in 0..(Len(haystack) - Len(needle)) :
        SubSeq(haystack, i + 1, i + Len(needle)) = needle

-----------------------------------------------------------------------------
(* RDF terms *)

URIRef(segments) == [kind |-> "uri", val |-> segments]
Literal(text) == [kind |-> "lit", val |-> text]
BNode(name) == [kind |-> "bnode", val |-> <<name>>]

\* isinstance(x, URIRef)
IsURIRef(x) == x.kind = "uri"
\* isinstance(x, Literal)
IsLiteral(x) == x.kind = "lit"

RDFS_label == URIRef(<<"rdfs", "#", "label">>)
RDF_type == URIRef(<<"rdf", "#", "type">>)

\* Entities and predicates of the fixture ontologies
EntA == URIRef(<<"onto", "#", "A">>)
EntB == URIRef(<<"onto", "#", "B">>)
EntC == URIRef(<<"onto", "#", "C">>)
EntD == URIRef(<<"onto", "#", "D">>)
ClassK == URIRef(<<"onto", "#", "K">>)
Blank == BNode("b0")
rel == URIRef(<<"onto", "#", "rel">>)
rel2 == URIRef(<<"onto", "/", "rel2">>)

-----------------------------------------------------------------------------
(* The rdflib Graph operations the engine uses *)

\* All orders in which a set can be enumerated
RECURSIVE Orders(_)
Orders(S) ==
    IF S = {} THEN {<<>>}
    ELSE UNION {{<<x>> \o rest : rest \in Orders(S \ {x})} : x \in S}

\* graph.predicate_objects(subject=node): the triples <<node, p, o>>
predicate_objects(g, node) == {t \in g : t[1] = node}

\* Mutant: the incoming edges are never looked up
subject_predicates_none(g, node) == {}

\* graph.subject_predicates(object=node): the triples <<s, p, node>>
subject_predicates(g, node) == {t \in g : t[3] = node}

\* graph.triples((node, None, None))
triples_of_subject(g, node) == {t \in g : t[1] = node}

\* graph.triples((None, predicate, None))
triples_of_predicate(g, predicate) == {t \in g : t[2] = predicate}

\* graph.value(predicate=p, object=o): the subjects it may return
\* (any=True: the first one the store enumerates), None when there is none
value_subjects(g, p, o) == {t[1] : t \in {u \in g : u[2] = p /\ u[3] = o}}

\* graph.value(subject=s, predicate=p): the objects it may return
value_objects(g, s, p) == {t[3] : t \in {u \in g : u[1] = s /\ u[2] = p}}

-----------------------------------------------------------------------------
(* _find_shortest_path *)

\* Optional[List[triple]]: None, or a list of triples (possibly empty)
None == [found |-> FALSE, hops |-> <<>>]
Some(path) == [found |-> TRUE, hops |-> path]

\* Python truthiness of an Optional[List]:  if path_found
Truthy(opt) == opt.found /\ Len(opt.hops) > 0

\* Mutant: the start == end shortcut is missing
SameNodeNever(start, end) == FALSE

\* line 121:  if start_node == end_node
SameNode(start, end) == start = end

\* line 134:  queue.popleft()
popleft(q) == [item |-> Head(q), rest |-> Tail(q)]

\* Mutant: an outgoing edge is recorded against its direction
OutgoingHopReversed(current, p, o) == <<o, p, current>>

\* line 143: the hop recorded for an outgoing edge
OutgoingHop(current, p, o) == <<current, p, o>>

\* Mutant: an incoming edge is recorded in the direction of travel
IncomingHopReversed(s, p, current) == <<current, p, s>>

\* line 155: the hop recorded for an incoming edge
IncomingHop(s, p, current) == <<s, p, current>>

\* Mutant: path.append(hop) instead of path + [hop]: the hops of the siblings
\* accumulate in the one shared list
RECURSIVE Phase1Aliased(_, _, _, _, _)
Phase1Aliased(rows, current, path, end, st) ==
    IF rows = <<>> \/ st.ret.found THEN st
    ELSE LET p == Head(rows)[2]
             o == Head(rows)[3]
         IN  IF IsURIRef(o) /\ o \notin st.visited
             THEN LET new_path == Append(path, <<current, p, o>>)
                  IN  IF o = end
                      THEN [st EXCEPT !.ret = Some(new_path)]
                      ELSE Phase1Aliased(Tail(rows), current, new_path, end,
                                  [visited |-> st.visited \cup {o},
                                   queue |-> Append(st.queue, <<o, new_path>>),
                                   ret |-> st.ret])
             ELSE Phase1Aliased(Tail(rows), current, path, end, st)

\* lines 138-148: the loop over the outgoing edges of current, in the order rows;
\* st is [visited, queue, ret], ret being the value returned from inside the loop
RECURSIVE Phase1(_, _, _, _, _)
Phase1(rows, current, path, end, st) ==
    IF rows = <<>> \/ st.ret.found THEN st
    ELSE LET p == Head(rows)[2]
             o == Head(rows)[3]
         IN  IF IsURIRef(o) /\ o \notin st.visited
             THEN LET new_path == Append(path, OutgoingHop(current, p, o))
                  IN  IF o = end
                      THEN [st EXCEPT !.ret = Some(new_path)]
                      ELSE Phase1(Tail(rows), current, path, end,
                                  [visited |-> st.visited \cup {o},
                                   queue |-> Append(st.queue, <<o, new_path>>),
                                   ret |-> st.ret])
             ELSE Phase1(Tail(rows), current, path, end, st)

\* Mutant: the incoming hop replaces the path that led to current
RECURSIVE Phase2PathDropped(_, _, _, _, _)
Phase2PathDropped(rows, current, path, end, st) ==
    IF rows = <<>> \/ st.ret.found THEN st
    ELSE LET s == Head(rows)[1]
             p == Head(rows)[2]
         IN  IF IsURIRef(s) /\ s \notin st.visited
             THEN LET new_path == <<IncomingHop(s, p, current)>>
                  IN  IF s = end
                      THEN [st EXCEPT !.ret = Some(new_path)]
                      ELSE Phase2PathDropped(Tail(rows), current, path, end,
                                  [visited |-> st.visited \cup {s},
                                   queue |-> Append(st.queue, <<s, new_path>>),
                                   ret |-> st.ret])
             ELSE Phase2PathDropped(Tail(rows), current, path, end, st)

\* lines 152-158: the loop over the incoming edges of current
RECURSIVE Phase2(_, _, _, _, _)
Phase2(rows, current, path, end, st) ==
    IF rows = <<>> \/ st.ret.found THEN st
    ELSE LET s == Head(rows)[1]
             p == Head(rows)[2]
         IN  IF IsURIRef(s) /\ s \notin st.visited
             THEN LET new_path == Append(path, IncomingHop(s, p, current))
                  IN  IF s = end
                      THEN [st EXCEPT !.ret = Some(new_path)]
                      ELSE Phase2(Tail(rows), current, path, end,
                                  [visited |-> st.visited \cup {s},
                                   queue |-> Append(st.queue, <<s, new_path>>),
                                   ret |-> st.ret])
             ELSE Phase2(Tail(rows), current, path, end, st)

\* one more count of x, of every element of list
Tally(bag, x) ==
    IF x \in DOMAIN bag THEN [bag EXCEPT ![x] = @ + 1] ELSE bag @@ (x :> 1)

RECURSIVE TallyAll(_, _)
TallyAll(bag, list) ==
    IF list = <<>> THEN bag ELSE TallyAll(Tally(bag, Head(list)), Tail(list))

\* lines 138-145, 152-156: the rows a for loop meets, all the rows or the rows up
\* to the one it returns at; col is the position of the neighbour in the triple
RECURSIVE RowsMet(_, _, _, _)
RowsMet(rows, col, end, visited_) ==
    IF rows = <<>> THEN <<>>
    ELSE LET x == Head(rows)[col]
         IN  IF IsURIRef(x) /\ x \notin visited_ /\ x = end
             THEN <<Head(rows)>>
             ELSE <<Head(rows)>> \o RowsMet(Tail(rows), col, end, visited_)

\* lines 148, 158: the nodes queue.append added to the queue
Appended(before, after) ==
    [i \in 1..(Len(after) - Len(before)) |-> after[Len(before) + i][1]]

\* the tallies after one iteration of  while queue
Visit(v, current, appended, outs_met, ins_met) ==
    [enqueued |-> TallyAll(v.enqueued, appended),
     dequeued |-> Tally(v.dequeued, current),
     outgoing |-> TallyAll(v.outgoing, outs_met),
     incoming |-> TallyAll(v.incoming, ins_met)]

\* Mutant: the start node is not marked
InitialVisitedNone(start) == {}

\* line 129:  visited = {start_node}
InitialVisited(start) == {start}

\* lines 120-129: entry of _find_shortest_path(graph, start, end)
EnterSearch(start, end) ==
    /\ start_node' = start
    /\ end_node' = end
    /\ calls' = calls + 1
    /\ scans' = 0
    /\ IF SameNode(start, end)
       THEN /\ result' = Some(<<>>)
            /\ queue' = <<>>
            /\ visited' = {}
            /\ visits' = NoVisits
            /\ pc' = "ret"
       ELSE /\ result' = None
            /\ queue' = << <<start, <<>> >> >>
            /\ visited' = InitialVisited(start)
            /\ visits' = [NoVisits EXCEPT !.enqueued = Tally(EmptyTally, start)]
            /\ pc' = "bfs"

\* lines 132-162: one iteration of  while queue , or the exit of the loop
SearchStep ==
    /\ pc = "bfs"
    /\ IF queue = <<>>
       THEN /\ result' = None
            /\ pc' = "ret"
            /\ UNCHANGED <<queue, visited, scans, visits>>
       ELSE LET d == popleft(queue)
                current == d.item[1]
                path == d.item[2]
            IN  \E outs \in Orders(predicate_objects(graph, current)) :
                  LET s1 == Phase1(outs, current, path, end_node,
                                   [visited |-> visited, queue |-> d.rest, ret |-> None])
                  IN  IF s1.ret.found
                      THEN /\ result' = s1.ret
                           /\ pc' = "ret"
                           /\ queue' = <<>>
                           /\ visited' = {}
                           /\ scans' = scans + 1
                           /\ visits' = Visit(visits, current,
                                              Appended(d.rest, s1.queue),
                                              RowsMet(outs, 3, end_node, visited), <<>>)
                      ELSE \E ins \in Orders(subject_predicates(graph, current)) :
                             LET s2 == Phase2(ins, current, path, end_node, s1)
                             IN  /\ scans' = scans + 2
                                 /\ visits' = Visit(visits, current,
                                                    Appended(d.rest, s2.queue),
                                                    RowsMet(outs, 3, end_node, visited),
                                                    RowsMet(ins, 1, end_node, s1.visited))
                                 /\ IF s2.ret.found
                                    THEN /\ result' = s2.ret
                                         /\ pc' = "ret"
                                         /\ queue' = <<>>
                                         /\ visited' = {}
                                    ELSE /\ result' = None
                                         /\ pc' = "bfs"
                                         /\ queue' = s2.queue
                                         /\ visited' = s2.visited
    /\ UNCHANGED <<graph, question, caller, initial_entities, pair_index, start_node,
                   end_node, path_found, all_facts_triplets, regime, report, calls,
                   first,
                   invocations, retrieval, hf_call, response, pipeline>>

-----------------------------------------------------------------------------
(* _identify_all_entities *)

\* lines 44-49: synonym_map, in the dict's insertion order
synonym_map ==
    << [keyword |-> <<"s","o","l","u","t","i","o","n">>,
        labels |-> << <<"A","l","g","o","r","i","t","h","m","e"," ","d","e"," ","c","o","m","p","e","n","s","a","t","i","o","n">>,
                      <<"S","t","r","a","t","é","g","i","e"," ","d","'","O","p","t","i","m","i","s","a","t","i","o","n">>,
                      <<"P","a","d","d","i","n","g"," ","m","é","m","o","i","r","e"," ","3","D">> >>],
       [keyword |-> <<"c","o","r","r","i","g","e","r">>,
        labels |-> << <<"A","l","g","o","r","i","t","h","m","e"," ","d","e"," ","c","o","m","p","e","n","s","a","t","i","o","n">>,
                      <<"S","t","r","a","t","é","g","i","e"," ","d","'","O","p","t","i","m","i","s","a","t","i","o","n">> >>],
       [keyword |-> <<"l","e","n","t">>,
        labels |-> << <<"G","o","u","l","o","t"," ","d","'","é","t","r","a","n","g","l","e","m","e","n","t"," ","r","é","s","e","a","u">>,
                      <<"H","a","u","t","e"," ","l","a","t","e","n","c","e"," ","i","n","t","e","r","-","g","r","o","u","p","e">> >>],
       [keyword |-> <<"p","r","o","b","l","è","m","e">>,
        labels |-> << <<"P","r","o","b","l","è","m","e"," ","d","e"," ","p","r","é","c","i","s","i","o","n">>,
                      <<"P","r","o","b","l","e","m","e","P","e","r","f","o","r","m","a","n","c","e">>,
                      <<"F","a","l","s","e"," ","s","h","a","r","i","n","g">>,
                      <<"B","a","n","k"," ","c","o","n","f","l","i","c","t","s"," ","L","2">> >>] >>

\* lines 52-56: the label texts looked up, in order, for the entries i.. of
\* synonym_map whose keyword occurs in question_lower
RECURSIVE SynonymLookups(_, _)
SynonymLookups(question_lower, i) ==
    IF i > Len(synonym_map) THEN <<>>
    ELSE (IF IsSubstring(synonym_map[i].keyword, question_lower)
          THEN synonym_map[i].labels ELSE <<>>)
            \o SynonymLookups(question_lower, i + 1)

\* the elements of a list
Elements(list) == {list[i] : i \in 1..Len(list)}

\* Mutant: found_entities is a list and every match is appended
set_add_appending(found_entities, s) == Append(found_entities, s)

\* lines 33, 65, 84: found_entities is a set; it is kept here as the list of
\* its elements in the order they were first added, and set.add leaves a set
\* that already holds the element as it is
set_add(found_entities, s) ==
    IF s \in Elements(found_entities) THEN found_entities
    ELSE Append(found_entities, s)

\* lines 56-65: the lookups of the synonym pass; the result is the set of the
\* values found_entities can have afterwards (graph.value returns whichever
\* subject carrying the label the store enumerates first)
RECURSIVE SynonymPass(_, _, _)
SynonymPass(lookups, g, found_entities) ==
    IF lookups = <<>> THEN {found_entities}
    ELSE LET subjects == value_subjects(g, RDFS_label, Literal(Head(lookups)))
         IN  IF subjects = {}
             THEN SynonymPass(Tail(lookups), g, found_entities)
             ELSE UNION {SynonymPass(Tail(lookups), g,
                                     IF IsURIRef(subject)
                                     THEN set_add(found_entities, subject)
                                     ELSE found_entities) : subject \in subjects}

\* lines 72-84: the loop of the direct-label pass over the label triples rows
RECURSIVE DirectRows(_, _, _)
DirectRows(rows, question_lower, found_entities) ==
    IF rows = {} THEN found_entities
    ELSE LET t == CHOOSE u \in rows : TRUE
         IN  DirectRows(rows \ {t}, question_lower,
                        IF /\ IsURIRef(t[1])
                           /\ IsLiteral(t[3])
                           /\ IsSubstring(lower(t[3].val), question_lower)
                           /\ t[1] \notin Elements(found_entities)
                        THEN set_add(found_entities, t[1])
                        ELSE found_entities)

\* Mutant: labels of fewer than two characters are not matched
DirectPassLongLabels(question_lower, g, found_entities) ==
    DirectRows({t \in triples_of_predicate(g, RDFS_label) :
                   IsLiteral(t[3]) => Len(t[3].val) >= 2},
               question_lower, found_entities)

\* lines 72-84: the direct-label pass
DirectPass(question_lower, g, found_entities) ==
    DirectRows(triples_of_predicate(g, RDFS_label), question_lower, found_entities)

\* Mutant: every formal label of the map is looked up
IdentifiedSetsAllSynonyms(q, g) ==
    {DirectPass(lower(q), g, found) :
        found \in SynonymPass(SynonymLookups(<<"s","o","l","u","t","i","o","n",
                                               "c","o","r","r","i","g","e","r",
                                               "l","e","n","t",
                                               "p","r","o","b","l","è","m","e">>, 1),
                              g, <<>>)}

\* lines 33-94: the values found_entities can have at line 94
IdentifiedSets(q, g) ==
    {DirectPass(lower(q), g, found) :
        found \in SynonymPass(SynonymLookups(lower(q), 1), g, <<>>)}

\* line 94: list(found_entities), in any of the orders the set can be
\* enumerated
ListOrders(found_entities) ==
    {[i \in 1..Len(found_entities) |-> found_entities[order[i]]] :
        order \in Orders(1..Len(found_entities))}

-----------------------------------------------------------------------------
(* _get_node_label and the formatting of the report *)

\* the part of text after the last occurrence of sep: text.split(sep)[-1]
RECURSIVE AfterLast(_, _)
AfterLast(text, sep) ==
    IF \E i \in 1..Len(text) : text[i] = sep
    THEN AfterLast(Tail(text), sep)
    ELSE text

\* bool(term): an rdflib term is a string, false when it is empty
TermTruthy(term) == Len(term.val) > 0

Raised == [raised |-> TRUE, text |-> <<>>]
Text(t) == [raised |-> FALSE, text |-> t]

\* Mutant: the label triples are not consulted
_get_node_label_short(node_uri, g) ==
    IF ~IsURIRef(node_uri) THEN {Text(node_uri.val)}
    ELSE {Text(AfterLast(AfterLast(node_uri.val, "#"), "/"))}

\* lines 100-106: the values _get_node_label(node_uri, graph) can return;
\* label.value raises AttributeError when the label object is no Literal
_get_node_label(node_uri, g) ==
    IF ~IsURIRef(node_uri) THEN {Text(node_uri.val)}
    ELSE LET labels == value_objects(g, node_uri, RDFS_label)
             short == Text(AfterLast(AfterLast(node_uri.val, "#"), "/"))
         IN  IF labels = {} THEN {short}
             ELSE {IF TermTruthy(label)
                   THEN (IF IsLiteral(label) THEN Text(label.val) ELSE Raised)
                   ELSE short : label \in labels}

\* the f-string  "{s} --[{p}]--> {o}"
Edge(s, p, o) ==
    IF s.raised \/ p.raised \/ o.raised THEN Raised
    ELSE Text(s.text \o <<" --[">> \o p.text \o <<"]--> ">> \o o.text)

\* Mutant: a literal object is written without the quotes
FormatFactUnquoted(t, g) ==
    {Edge(s, p, o) : s \in _get_node_label(t[1], g),
                     p \in _get_node_label(t[2], g),
                     o \in IF IsURIRef(t[3]) THEN _get_node_label(t[3], g)
                           ELSE {Text(t[3].val)}}

\* line 237: one element of formatted_facts
FormatFact(t, g) ==
    {Edge(s, p, o) : s \in _get_node_label(t[1], g),
                     p \in _get_node_label(t[2], g),
                     o \in IF IsURIRef(t[3]) THEN _get_node_label(t[3], g)
                           ELSE {Text(<<"\"">> \o t[3].val \o <<"\"">>)}}

\* line 240: one element of formatted_path
FormatHop(t, g) ==
    {Edge(s, p, o) : s \in _get_node_label(t[1], g),
                     p \in _get_node_label(t[2], g),
                     o \in _get_node_label(t[3], g)}

\* a list comprehension whose i-th element can take the values choices[i]:
\* the lists it can build
RECURSIVE Comprehension(_)
Comprehension(choices) ==
    IF choices = <<>> THEN {<<>>}
    ELSE {<<h>> \o rest : h \in Head(choices), rest \in Comprehension(Tail(choices))}

\* a set enumerated in one of its orders
RECURSIVE Enumerated(_)
Enumerated(S) ==
    IF S = {} THEN <<>>
    ELSE LET x == CHOOSE y \in S : TRUE IN <<x>> \o Enumerated(S \ {x})

\* a list up to the order of its elements: element |-> number of occurrences
Unordered(list) ==
    [x \in {list[i] : i \in 1..Len(list)} |->
        Cardinality({i \in 1..Len(list) : list[i] = x})]

AnyRaised(texts) == \E i \in 1..Len(texts) : texts[i].raised
Strings(texts) == [i \in 1..Len(texts) |-> texts[i].text]

-----------------------------------------------------------------------------
(* find_reasoning_path *)

\* Mutant: the early report leaves the question out
EmptyReportNoQuestion(q) ==
    [question |-> <<>>, entites_initiales |-> <<>>,
     chemin_trouve |-> <<>>, faits_deduits |-> Unordered(<<>>)]

\* line 185: the report of a question with no entity
EmptyReport(q) ==
    [question |-> q, entites_initiales |-> <<>>,
     chemin_trouve |-> <<>>, faits_deduits |-> Unordered(<<>>)]

NoReport == EmptyReport(<<"?">>)

\* Mutant: product(entities, repeat=2) instead of permutations(entities, 2):
\* an entity is paired with itself
PermutationPairWithRepeats(entities, k) ==
    LET n == Len(entities)
        i == ((k - 1) \div n) + 1
        j == ((k - 1) % n) + 1
    IN  <<entities[i], entities[j]>>

\* Mutant: the pairs are tried from the last one to the first
PermutationPairReversed(entities, k) ==
    LET n == Len(entities)
        m == n * (n - 1) + 1 - k
        i == ((m - 1) \div (n - 1)) + 1
        r == ((m - 1) % (n - 1)) + 1
        j == IF r < i THEN r ELSE r + 1
    IN  <<entities[i], entities[j]>>

\* line 199: permutations(entities, 2), the k-th pair (k from 1)
PermutationPair(entities, k) ==
    LET n == Len(entities)
        i == ((k - 1) \div (n - 1)) + 1
        r == ((k - 1) % (n - 1)) + 1
        j == IF r < i THEN r ELSE r + 1
    IN  <<entities[i], entities[j]>>

\* Mutant: the unordered pairs only
NumPairsUnordered(entities) == (Len(entities) * (Len(entities) - 1)) \div 2

\* line 199: the number of pairs permutations(entities, 2) yields
NumPairs(entities) == Len(entities) * (Len(entities) - 1)

\* line 196:  len(initial_entities) >= 2
SearchesPaths(entities) == Len(entities) >= 2

\* line 218: nodes_in_path
nodes_in_path(path) ==
    {path[i][1] : i \in 1..Len(path)}
        \cup {path[i][3] : i \in {k \in 1..Len(path) : IsURIRef(path[k][3])}}

\* Mutant: every predicate of a path node is kept
IsDescriptiveAny(p_fact) == TRUE

\* line 221:  p_fact in [RDFS.label, RDF.type]
IsDescriptive(p_fact) == p_fact \in {RDFS_label, RDF_type}

\* lines 211-222: the facts of the path regime
PathFacts(path, g) ==
    {path[i] : i \in 1..Len(path)}
        \cup UNION {{t \in triples_of_subject(g, node) : IsDescriptive(t[2])} :
                        node \in nodes_in_path(path)}

\* Mutant: the last entity of the list is taken
main_entity_last(entities) == entities[Len(entities)]

\* line 228: main_entity
main_entity(entities) == entities[1]

\* Mutant: the incoming triples of the entity are collected too
NeighbourhoodFactsBothWays(entities, g) ==
    {t \in g : t[1] = entities[1] \/ t[3] = entities[1]}

\* lines 227-231: the facts of the neighbourhood regime
NeighbourhoodFacts(entities, g) == triples_of_subject(g, main_entity(entities))

\* lines 180-185: step 1, and the early return when no entity is found
Identify ==
    /\ pc = "start"
    /\ caller = "query"
    /\ \E found_entities \in IdentifiedSets(question, graph) :
         \E entities \in ListOrders(found_entities) :
            /\ initial_entities' = entities
            /\ IF entities = <<>>
               THEN /\ report' = EmptyReport(question)
                    /\ pc' = "done"
               ELSE /\ report' = report
                    /\ pc' = IF SearchesPaths(entities) THEN "pairs" ELSE "collect"
    /\ path_found' = None
    /\ all_facts_triplets' = {}
    /\ pair_index' = 0
    /\ UNCHANGED <<graph, question, caller, start_node, end_node, queue, visited,
                   result, regime, calls, scans, first,
                   invocations, retrieval, hf_call, visits, response, pipeline>>

\* lines 199-201: the next pair of the for loop and the call of _find_shortest_path
TryPair ==
    /\ pc = "pairs"
    /\ caller = "query"
    /\ pair_index < NumPairs(initial_entities)
    /\ pair_index' = pair_index + 1
    /\ LET pair == PermutationPair(initial_entities, pair_index + 1)
       IN  EnterSearch(pair[1], pair[2])
    /\ UNCHANGED <<graph, question, caller, initial_entities, path_found,
                   all_facts_triplets, regime, report, first,
                   invocations, retrieval, hf_call, response, pipeline>>

\* lines 201-204: the value returned is assigned; the loop breaks on a path, goes
\* on to the next pair, or ends; the tallies of the call that returned go with
\* its other locals
PairReturn ==
    /\ pc = "ret"
    /\ caller = "query"
    /\ path_found' = result
    /\ visits' = NoVisits
    /\ pc' = IF Truthy(result) \/ pair_index = NumPairs(initial_entities)
             THEN "collect" ELSE "pairs"
    /\ UNCHANGED <<graph, question, caller, initial_entities, pair_index, start_node,
                   end_node, queue, visited, result, all_facts_triplets, regime,
                   report, calls, scans, first,
                   invocations, retrieval, hf_call, response, pipeline>>

\* Mutant: the collected facts are taken out of the graph
graph_after_collect_removing(g, facts) == g \ facts

\* lines 211-231: the graph after the fact collection, which reads it with
\* graph.triples and calls neither add nor remove
graph_after_collect(g, facts) == g

\* lines 211-248: steps 3 and 4, the collection of the facts and the report
Collect ==
    /\ pc = "collect"
    /\ caller = "query"
    /\ \E facts \in {IF Truthy(path_found)
                     THEN PathFacts(path_found.hops, graph)
                     ELSE NeighbourhoodFacts(initial_entities, graph)},
          hops \in {IF Truthy(path_found) THEN path_found.hops ELSE <<>>} :
           /\ all_facts_triplets' = facts
           /\ graph' = graph_after_collect(graph, facts)
           /\ regime' = IF Truthy(path_found) THEN "path" ELSE "neighborhood"
           /\ \E order \in {Enumerated(facts)} :
                \E formatted_facts \in Comprehension(
                        [i \in 1..Len(order) |-> FormatFact(order[i], graph)]) :
                  \E formatted_path \in Comprehension(
                          [i \in 1..Len(hops) |-> FormatHop(hops[i], graph)]) :
                    \E labels \in Comprehension(
                            [i \in 1..Len(initial_entities) |->
                                _get_node_label(initial_entities[i], graph)]) :
                       IF AnyRaised(formatted_facts) \/ AnyRaised(formatted_path)
                            \/ AnyRaised(labels)
                       THEN /\ pc' = "raised"
                            /\ report' = report
                       ELSE /\ pc' = "done"
                            /\ report' = [question |-> question,
                                          entites_initiales |-> Strings(labels),
                                          chemin_trouve |-> Strings(formatted_path),
                                          faits_deduits |-> Unordered(Strings(formatted_facts))]
    /\ UNCHANGED <<question, caller, initial_entities, pair_index, start_node,
                   end_node, queue, visited, result, path_found, calls, scans, first,
                   invocations, retrieval, hf_call, visits, response, pipeline>>

\* the caller asks the same question again on the same graph
AskAgain ==
    /\ pc = "done"
    /\ caller = "query"
    /\ ~first.done
    /\ first' = [done |-> TRUE, chemin_trouve |-> report.chemin_trouve,
                 faits_deduits |-> DOMAIN report.faits_deduits]
    /\ pc' = "start"
    /\ initial_entities' = <<>>
    /\ pair_index' = 0
    /\ queue' = <<>>
    /\ visited' = {}
    /\ result' = None
    /\ path_found' = None
    /\ all_facts_triplets' = {}
    /\ regime' = "none"
    /\ report' = NoReport
    /\ calls' = 0
    /\ scans' = 0
    /\ visits' = NoVisits
    /\ UNCHANGED <<graph, question, caller, start_node, end_node,
                   invocations, retrieval, hf_call, response, pipeline>>

-----------------------------------------------------------------------------
(* Queries on the fixture ontologies *)

LabelA == <<"A", "a">>
LabelB == <<"b">>
LabelC == <<"c">>

QueryLabels ==
    {<<EntA, RDFS_label, Literal(LabelA)>>,
     <<EntB, RDFS_label, Literal(LabelB)>>,
     <<EntC, RDFS_label, Literal(LabelC)>>}

QueryTripleUniverse ==
    {t \in {EntA, EntB, EntC} \X {rel} \X {EntA, EntB, EntC} : t[1] # t[3]}
        \cup {<<EntA, RDF_type, ClassK>>,
              <<EntB, RDF_type, ClassK>>,
              <<EntA, rel2, Literal(<<"x">>)>>,
              <<ClassK, RDFS_label, EntA>>}

QueryGraphs ==
    {QueryLabels \cup g : g \in {h \in SUBSET QueryTripleUniverse :
                                    Cardinality(h) <= MaxEdges}}

Questions ==
    { <<>>,
      <<"z">>,
      <<"a", "a">>,
      <<"B", " ", "a", "A">>,
      <<"a", "a", "b", "c">> }

Init ==
    /\ graph \in QueryGraphs
    /\ question \in Questions
    /\ pc = "start"
    /\ caller = "query"
    /\ initial_entities = <<>>
    /\ pair_index = 0
    /\ start_node = EntA
    /\ end_node = EntA
    /\ queue = <<>>
    /\ visited = {}
    /\ result = None
    /\ path_found = None
    /\ all_facts_triplets = {}
    /\ regime = "none"
    /\ report = NoReport
    /\ calls = 0
    /\ scans = 0
    /\ visits = NoVisits
    /\ response = NoResponse
    /\ pipeline = NoPipeline
    /\ first = [done |-> FALSE, chemin_trouve |-> <<>>, faits_deduits |-> {}]
    /\ invocations = NoInvocation
    /\ retrieval = NoRetrieval
    /\ hf_call = NoCall

Next == Identify \/ TryPair \/ SearchStep \/ PairReturn \/ Collect \/ AskAgain

Spec == Init /\ [][Next]_vars

-----------------------------------------------------------------------------
(* Direct calls of _find_shortest_path on the fixture graphs *)

PathNodes == {EntA, EntB, EntC, EntD}

PathTripleUniverse ==
    {<<s, rel, o>> : s \in {EntA, EntB, EntC}, o \in {EntA, EntB, EntC}}
        \cup {<<EntA, rel2, EntB>>,
              <<EntA, RDFS_label, Literal(<<"a">>)>>,
              <<EntA, rel, Blank>>,
              <<Blank, rel, EntB>>}

PathGraphs == {g \in SUBSET PathTripleUniverse : Cardinality(g) <= MaxPathEdges}

InitPath ==
    /\ graph \in PathGraphs
    /\ start_node \in PathNodes
    /\ end_node \in PathNodes
    /\ question = <<>>
    /\ pc = "call"
    /\ caller = "test"
    /\ initial_entities = <<>>
    /\ pair_index = 0
    /\ queue = <<>>
    /\ visited = {}
    /\ result = None
    /\ path_found = None
    /\ all_facts_triplets = {}
    /\ regime = "none"
    /\ report = NoReport
    /\ calls = 0
    /\ scans = 0
    /\ visits = NoVisits
    /\ response = NoResponse
    /\ pipeline = NoPipeline
    /\ first = [done |-> FALSE, chemin_trouve |-> <<>>, faits_deduits |-> {}]
    /\ invocations = NoInvocation
    /\ retrieval = NoRetrieval
    /\ hf_call = NoCall

\* the call  _find_shortest_path(graph, start_node, end_node)
CallSearch ==
    /\ pc = "call"
    /\ caller = "test"
    /\ EnterSearch(start_node, end_node)
    /\ UNCHANGED <<graph, question, caller, initial_entities, pair_index,
                   path_found, all_facts_triplets, regime, report, first,
                   invocations, retrieval, hf_call, response, pipeline>>

NextPath == CallSearch \/ SearchStep

SpecPath == InitPath /\ [][NextPath]_vars

-----------------------------------------------------------------------------
(* Reference notions the claims are stated with *)

\* The entity nodes one hop away from node n, every triple usable in both directions
Neighbours(g, n) ==
    {t[3] : t \in {u \in g : u[1] = n /\ IsURIRef(u[3])}}
        \cup {t[1] : t \in {u \in g : u[3] = n /\ IsURIRef(u[1])}}

\* The nodes at most k hops away from the nodes of S
RECURSIVE Within(_, _, _)
Within(g, S, k) ==
    IF k = 0 THEN S
    ELSE Within(g, S \cup UNION {Neighbours(g, n) : n \in S}, k - 1)

Connected(g, a, b) == b \in Within(g, {a}, Cardinality(g))

\* The minimum hop count of a chain from a to b (for connected a, b)
HopCount(g, a, b) ==
    CHOOSE k \in 0..Cardinality(g) :
        /\ b \in Within(g, {a}, k)
        /\ \A j \in 0..(k - 1) : b \notin Within(g, {a}, j)

SearchReturned == pc = "ret" /\ caller = "test"

-----------------------------------------------------------------------------
(* Claims on _find_shortest_path, checked under SpecPath *)

\* C1: for distinct start and end joined by some chain of triples between entity
\* nodes (each triple usable in either direction), the returned path has exactly
\* the minimum hop count of such a chain.
C1_ShortestHopCount ==
    (SearchReturned /\ start_node # end_node /\ Connected(graph, start_node, end_node))
        => /\ result.found
           /\ Len(result.hops) = HopCount(graph, start_node, end_node)

\* C1 witness: a direct edge A->B beside the 2-hop chain A->C->B; the 1-hop path is returned.
C1_Witness ==
    /\ SearchReturned
    /\ start_node = EntA /\ end_node = EntB
    /\ {<<EntA, rel, EntB>>, <<EntA, rel, EntC>>, <<EntC, rel, EntB>>} \subseteq graph
    /\ result.found /\ Len(result.hops) = 1

\* C2: when start and end are joined directly only by triples stored as
\* (end, p, start), the search from start returns a 1-hop path whose triple is
\* such a stored triple, subject end and object start.
C2_ReverseEdgeFound ==
    (/\ SearchReturned
     /\ start_node # end_node
     /\ \E t \in graph : t[1] = end_node /\ t[3] = start_node
     /\ ~ \E t \in graph : t[1] = start_node /\ t[3] = end_node)
        => /\ result.found
           /\ Len(result.hops) = 1
           /\ result.hops[1] \in graph
           /\ result.hops[1][1] = end_node
           /\ result.hops[1][3] = start_node

\* C2 witness: the graph is the single triple (B, rel, A) and the search ran from A to B.
C2_Witness ==
    /\ SearchReturned
    /\ graph = {<<EntB, rel, EntA>>}
    /\ start_node = EntA /\ end_node = EntB
    /\ result = Some(<< <<EntB, rel, EntA>> >>)

\* C3: for distinct start and end the search returns None exactly when end is not
\* reachable from start through entity nodes in the undirected view, and it never
\* returns the empty path then.
C3_NoneIffUnreachable ==
    (SearchReturned /\ start_node # end_node)
        => /\ (result = None) <=> ~Connected(graph, start_node, end_node)
           /\ result # Some(<<>>)

\* C3 witness: A and B are joined only through a blank node, and the search returned None.
C3_Witness ==
    /\ SearchReturned
    /\ start_node = EntA /\ end_node = EntB
    /\ {<<EntA, rel, Blank>>, <<Blank, rel, EntB>>} \subseteq graph
    /\ result = None

\* C4: when start equals end the search returns the empty path without one
\* enumeration of the graph.
C4_SameNodeEmptyPath ==
    (SearchReturned /\ start_node = end_node)
        => /\ result = Some(<<>>)
           /\ scans = 0

\* C4 witness: start = end = A on a graph where A has a self-loop and another edge.
C4_Witness ==
    /\ SearchReturned
    /\ start_node = EntA /\ end_node = EntA
    /\ {<<EntA, rel, EntA>>, <<EntA, rel, EntB>>} \subseteq graph
    /\ result = Some(<<>>)

-----------------------------------------------------------------------------
(* Claims on find_reasoning_path, checked under Spec *)

QueryDone == pc = "done" /\ caller = "query"

\* the triples of a list of hops
HopSet(hops) == {hops[i] : i \in 1..Len(hops)}

\* the position of the pair (i-th, j-th entity) among the ordered pairs of distinct
\* positions of a list of n entities, first position varying slowest
PairRank(n, i, j) == (i - 1) * (n - 1) + (IF j < i THEN j ELSE j - 1)

\* the pairs of distinct positions whose entities some chain connects
ConnectedPositions ==
    {ij \in (1..Len(initial_entities)) \X (1..Len(initial_entities)) :
        /\ ij[1] # ij[2]
        /\ Connected(graph, initial_entities[ij[1]], initial_entities[ij[2]])}

\* C5: when no entity is resolved, the report has the original question and empty
\* entity, path and fact lists, and neither a path search nor the collection of
\* facts has run.
C5_NoEntityEmptyReport ==
    (QueryDone /\ initial_entities = <<>>)
        => /\ report.question = question
           /\ report.entites_initiales = <<>>
           /\ report.chemin_trouve = <<>>
           /\ DOMAIN report.faits_deduits = {}
           /\ calls = 0
           /\ regime = "none"
           /\ all_facts_triplets = {}

\* C5 witness: the question "z" names no label of a graph that has edges.
C5_Witness ==
    /\ QueryDone
    /\ question = <<"z">>
    /\ initial_entities = <<>>
    /\ <<EntA, rel, EntB>> \in graph
    /\ report.question = <<"z">>

\* C6: when exactly one entity E is resolved, the reported path is empty and the
\* collected facts are exactly the triples of the graph whose subject is E.
C6_SingleEntityOutgoingFacts ==
    (QueryDone /\ Len(initial_entities) = 1)
        => /\ report.chemin_trouve = <<>>
           /\ all_facts_triplets = {t \in graph : t[1] = initial_entities[1]}

\* C6 witness: only A is resolved; A has outgoing triples and an incoming one,
\* and the incoming one is not collected.
C6_Witness ==
    /\ QueryDone
    /\ initial_entities = <<EntA>>
    /\ {<<EntB, rel, EntA>>, <<EntA, rel2, Literal(<<"x">>)>>} \subseteq graph
    /\ <<EntA, rel2, Literal(<<"x">>)>> \in all_facts_triplets
    /\ <<EntB, rel, EntA>> \notin all_facts_triplets

\* C7: when a path is found, the collected facts are exactly the triples of the
\* path and the label and type triples of the subjects and objects of the path's
\* triples.
C7_PathRegimeFacts ==
    (QueryDone /\ Truthy(path_found))
        => all_facts_triplets =
              HopSet(path_found.hops)
                \cup {t \in graph :
                        /\ \E h \in HopSet(path_found.hops) : t[1] = h[1] \/ t[1] = h[3]
                        /\ t[2] = RDFS_label \/ t[2] = RDF_type}

\* C7 witness: the path is A -> B; the label and the type triple of A are collected,
\* the triple of A with another predicate is not.
C7_Witness ==
    /\ QueryDone
    /\ path_found = Some(<< <<EntA, rel, EntB>> >>)
    /\ {<<EntA, RDF_type, ClassK>>, <<EntA, rel2, Literal(<<"x">>)>>} \subseteq graph
    /\ {<<EntA, RDF_type, ClassK>>, <<EntA, RDFS_label, Literal(LabelA)>>,
        <<EntB, RDFS_label, Literal(LabelB)>>} \subseteq all_facts_triplets
    /\ <<EntA, rel2, Literal(<<"x">>)>> \notin all_facts_triplets

\* C8: when two or more entities are resolved and no ordered pair of them is
\* connected, the reported path is empty and the facts, collected by the
\* neighbourhood regime alone, are exactly the outgoing triples of the first
\* entity of the list.
C8_NoPathFirstEntityFacts ==
    (QueryDone /\ Len(initial_entities) >= 2 /\ ConnectedPositions = {})
        => /\ report.chemin_trouve = <<>>
           /\ regime = "neighborhood"
           /\ all_facts_triplets = {t \in graph : t[1] = initial_entities[1]}

\* C8 witness: B and C are resolved in this order and not connected; a triple of C
\* is in the graph and not among the facts.
C8_Witness ==
    /\ QueryDone
    /\ initial_entities = <<EntB, EntC, EntA>>
    /\ ConnectedPositions = {}
    /\ <<EntA, rel2, Literal(<<"x">>)>> \in graph
    /\ <<EntB, RDFS_label, Literal(LabelB)>> \in all_facts_triplets
    /\ <<EntA, rel2, Literal(<<"x">>)>> \notin all_facts_triplets

\* C9: with two or more resolved entities the pairs of distinct positions are
\* searched in permutation order: the path reported is a shortest path of the
\* first connected pair in that order and the number of searches is the rank of
\* that pair (all pairs are searched when none is connected); with fewer than two
\* entities no search is made.
C9_FirstConnectedPairWins ==
    QueryDone =>
        /\ Len(initial_entities) < 2 => calls = 0
        /\ (Len(initial_entities) >= 2 /\ ConnectedPositions = {})
              => /\ calls = Len(initial_entities) * (Len(initial_entities) - 1)
                 /\ ~Truthy(path_found)
        /\ (Len(initial_entities) >= 2 /\ ConnectedPositions # {})
              => \E ij \in ConnectedPositions :
                    /\ \A kl \in ConnectedPositions :
                          PairRank(Len(initial_entities), ij[1], ij[2])
                              <= PairRank(Len(initial_entities), kl[1], kl[2])
                    /\ calls = PairRank(Len(initial_entities), ij[1], ij[2])
                    /\ start_node = initial_entities[ij[1]]
                    /\ end_node = initial_entities[ij[2]]
                    /\ path_found.found
                    /\ Len(path_found.hops) = HopCount(graph, start_node, end_node)

\* C9 witness: the list is A, B, C; the first pair (A, B) is joined by the 2-hop
\* chain through C, the later pair (A, C) by one hop; the 2-hop path is reported
\* after one search.
C9_Witness ==
    /\ QueryDone
    /\ initial_entities = <<EntA, EntB, EntC>>
    /\ calls = 1
    /\ Len(path_found.hops) = 2
    /\ <<EntA, rel, EntC>> \in graph
    /\ HopCount(graph, EntA, EntC) = 1

\* C10: a second query on the same question and the same graph reports the same
\* path, in the same order, and the same set of facts as the first one.
C10_SecondQuerySameReport ==
    (QueryDone /\ first.done)
        => /\ report.chemin_trouve = first.chemin_trouve
           /\ DOMAIN report.faits_deduits = first.faits_deduits

-----------------------------------------------------------------------------
(* _identify_all_entities called on its own, over graphs of label triples:
   well-formed labels, an empty one, a blank one, formal labels of the
   synonym map, labels whose object is not a literal and labels whose subject
   is not an entity identifier *)

MaxLabelTriples == 3

Goulot == synonym_map[3].labels[1]
Haute == synonym_map[3].labels[2]

ResolveLabelUniverse ==
    { <<EntA, RDFS_label, Literal(<<>>)>>,
      <<EntA, RDFS_label, Literal(<<" ">>)>>,
      <<EntB, RDFS_label, Literal(<<"A", "b">>)>>,
      <<EntB, RDFS_label, Literal(<<"b">>)>>,
      <<EntC, RDFS_label, Literal(Haute)>>,
      <<EntA, RDFS_label, Literal(Haute)>>,
      <<EntC, RDFS_label, Literal(Goulot)>>,
      <<EntC, RDFS_label, Literal(<<"L", "e", "n">>)>>,
      <<EntD, RDFS_label, Literal(lower(Haute))>>,
      <<EntA, RDFS_label, EntB>>,
      <<Blank, RDFS_label, Literal(Haute)>> }

ResolveGraphs ==
    {g \in SUBSET ResolveLabelUniverse : Cardinality(g) <= MaxLabelTriples}

ResolveQuestions ==
    { <<>>, <<" ">>, <<" ", " ">>, <<"x">>, <<"A", "B">>,
      <<"L", "e", "n", "t", " ", "A", "B">> }

InitResolve ==
    /\ graph \in ResolveGraphs
    /\ question \in ResolveQuestions
    /\ pc = "identify"
    /\ caller = "resolver"
    /\ initial_entities = <<>>
    /\ pair_index = 0
    /\ start_node = EntA
    /\ end_node = EntA
    /\ queue = <<>>
    /\ visited = {}
    /\ result = None
    /\ path_found = None
    /\ all_facts_triplets = {}
    /\ regime = "none"
    /\ report = NoReport
    /\ calls = 0
    /\ scans = 0
    /\ visits = NoVisits
    /\ response = NoResponse
    /\ pipeline = NoPipeline
    /\ first = [done |-> FALSE, chemin_trouve |-> <<>>, faits_deduits |-> {}]
    /\ invocations = NoInvocation
    /\ retrieval = NoRetrieval
    /\ hf_call = NoCall

\* the call  _identify_all_entities(question, graph)  and its return value
IdentifyCall ==
    /\ pc = "identify"
    /\ caller = "resolver"
    /\ \E found_entities \in IdentifiedSets(question, graph) :
         \E entities \in ListOrders(found_entities) :
            initial_entities' = entities
    /\ pc' = "identified"
    /\ UNCHANGED <<graph, question, caller, pair_index, start_node, end_node,
                   queue, visited, result, path_found, all_facts_triplets,
                   regime, report, calls, scans, first,
                   invocations, retrieval, hf_call, visits, response, pipeline>>

NextResolve == IdentifyCall

SpecResolve == InitResolve /\ [][NextResolve]_vars

Identified == pc = "identified" /\ caller = "resolver"

\* a text made of white space only, the empty text included
IsBlank(text) == \A i \in 1..Len(text) : text[i] = " "

\* the entities a label triple of the graph names directly in the question
DirectMatches(g, q) ==
    {t[1] : t \in {u \in g : /\ u[2] = RDFS_label
                             /\ IsURIRef(u[1])
                             /\ IsLiteral(u[3])
                             /\ IsSubstring(lower(u[3].val), lower(q))}}

\* the entities carrying, letter for letter, a formal label listed under a
\* keyword of the synonym map that occurs in the lowercased question
SynonymCarriers(g, q) ==
    {e \in {t[1] : t \in g} :
        /\ IsURIRef(e)
        /\ \E k \in 1..Len(synonym_map) :
              /\ IsSubstring(synonym_map[k].keyword, lower(q))
              /\ \E n \in 1..Len(synonym_map[k].labels) :
                    <<e, RDFS_label, Literal(synonym_map[k].labels[n])>> \in g}

\* C12: the resolver returns an empty result when the question is empty or made
\* of white space only, whatever label literals the graph holds.
C12_BlankQuestionEmptyResult ==
    (Identified /\ IsBlank(question)) => initial_entities = <<>>

\* C13: the list the resolver returns holds no entity identifier twice.
C13_NoDuplicateEntity ==
    Identified
        => \A i, j \in 1..Len(initial_entities) :
              i # j => initial_entities[i] # initial_entities[j]

\* C13 witness: entity C carries two formal labels of the keyword "lent" and a
\* label that occurs in the question itself, and is returned.
C13_Witness ==
    /\ Identified
    /\ question = <<"L", "e", "n", "t", " ", "A", "B">>
    /\ graph = { <<EntC, RDFS_label, Literal(Haute)>>,
                 <<EntC, RDFS_label, Literal(Goulot)>>,
                 <<EntC, RDFS_label, Literal(<<"L", "e", "n">>)>> }
    /\ initial_entities = <<EntC>>

\* C14: every entity with a label literal whose lowercased text occurs in the
\* lowercased question is in the result, and every entity of the result that
\* carries no formal label of a synonym entry of the question has such a label.
C14_DirectLabelPass ==
    Identified
        => /\ DirectMatches(graph, question) \subseteq Elements(initial_entities)
           /\ \A e \in Elements(initial_entities) \ SynonymCarriers(graph, question) :
                 e \in DirectMatches(graph, question)

\* C14 witness: the one-letter label "b" resolves entity B for the question "AB".
C14_Witness ==
    /\ Identified
    /\ question = <<"A", "B">>
    /\ graph = { <<EntB, RDFS_label, Literal(<<"b">>)>> }
    /\ initial_entities = <<EntB>>

\* C15: an entity that no label names directly is in the result only if it
\* carries, letter for letter, a formal label listed under a keyword occurring
\* in the lowercased question; and when exactly one node carries such a label
\* and it is an entity identifier, that entity is in the result.
C15_SynonymPass ==
    Identified
        => /\ \A e \in Elements(initial_entities) \ DirectMatches(graph, question) :
                 e \in SynonymCarriers(graph, question)
           /\ \A k \in 1..Len(synonym_map) :
                 IsSubstring(synonym_map[k].keyword, lower(question))
                    => \A n \in 1..Len(synonym_map[k].labels) :
                          LET subjects == value_subjects(graph, RDFS_label,
                                              Literal(synonym_map[k].labels[n]))
                          IN  \A e \in subjects :
                                 (subjects = {e} /\ IsURIRef(e))
                                     => e \in Elements(initial_entities)

\* C15 witness: the question holds "lent"; entity C carries the formal label
\* "Haute latence inter-groupe", entity D the same text in lower case; C is
\* returned and D is not.
C15_Witness ==
    /\ Identified
    /\ question = <<"L", "e", "n", "t", " ", "A", "B">>
    /\ graph = { <<EntC, RDFS_label, Literal(Haute)>>,
                 <<EntD, RDFS_label, Literal(lower(Haute))>> }
    /\ initial_entities = <<EntC>>

\* C11: a query never ends in a raised failure, whatever the graph holds; a
\* label triple whose object is not a text literal is skipped where it is used.
C11_NeverRaises == (caller = "query") => pc # "raised"

\* C16: no step of a query changes the set of triples of the graph.
C16_GraphUnchanged == [][graph' = graph]_vars

\* C16 witness: a query that found a path and collected its facts has ended,
\* and the facts are still triples of the graph.
C16_Witness ==
    /\ QueryDone
    /\ regime = "path"
    /\ all_facts_triplets # {}
    /\ all_facts_triplets \subseteq graph

-----------------------------------------------------------------------------
(* The query on the entities FalseSharing and CacheLineAlignment; their
   identifiers are cut letter by letter, so that a local name and a label
   text are texts of the same kind *)

FalseSharingName == <<"F", "a", "l", "s", "e", "S", "h", "a", "r", "i", "n", "g">>
CacheLineAlignmentName == <<"C", "a", "c", "h", "e", "L", "i", "n", "e", "A", "l", "i", "g", "n", "m", "e", "n", "t">>
estResoluParName == <<"e", "s", "t", "R", "e", "s", "o", "l", "u", "P", "a", "r">>

FalseSharing == URIRef(<<"onto", "#">> \o FalseSharingName)
CacheLineAlignment == URIRef(<<"onto", "#">> \o CacheLineAlignmentName)
estResoluPar == URIRef(<<"onto", "#">> \o estResoluParName)

\* the formal label "False sharing" of the synonym map
FalseSharingLabel == synonym_map[4].labels[3]
CacheLineLabel == <<"C", "a", "c", "h", "e", " ", "l", "i", "n", "e">>
ResoluLabel == <<"e", "s", "t", " ", "r", "é", "s", "o", "l", "u", " ", "p", "a", "r">>

ScenarioEdge == <<FalseSharing, estResoluPar, CacheLineAlignment>>

\* the labels the two entities can carry: one of them at least, since the
\* resolver finds an entity through its labels only
ScenarioLabelSets ==
    {fs \cup cla :
        fs \in (SUBSET { <<FalseSharing, RDFS_label, Literal(FalseSharingName)>>,
                         <<FalseSharing, RDFS_label, Literal(FalseSharingLabel)>> }) \ {{}},
        cla \in { {<<CacheLineAlignment, RDFS_label, Literal(CacheLineAlignmentName)>>},
                  {<<CacheLineAlignment, RDFS_label, Literal(CacheLineLabel)>>} }}

ScenarioTripleUniverse ==
    { ScenarioEdge,
      <<FalseSharing, RDF_type, ClassK>>,
      <<CacheLineAlignment, RDF_type, ClassK>>,
      <<estResoluPar, RDFS_label, Literal(ResoluLabel)>>,
      <<FalseSharing, rel2, Literal(<<"x">>)>> }

ScenarioGraphs ==
    {labels \cup g : labels \in ScenarioLabelSets, g \in SUBSET ScenarioTripleUniverse}

ScenarioQuestions ==
    { FalseSharingName \o <<" ">> \o CacheLineAlignmentName,
      <<"P", "r", "o", "b", "l", "è", "m", "e", ":", " ", "C", "a", "c", "h", "e", " ", "l", "i", "n", "e">> }

InitScenario ==
    /\ graph \in ScenarioGraphs
    /\ question \in ScenarioQuestions
    /\ pc = "start"
    /\ caller = "query"
    /\ initial_entities = <<>>
    /\ pair_index = 0
    /\ start_node = FalseSharing
    /\ end_node = FalseSharing
    /\ queue = <<>>
    /\ visited = {}
    /\ result = None
    /\ path_found = None
    /\ all_facts_triplets = {}
    /\ regime = "none"
    /\ report = NoReport
    /\ calls = 0
    /\ scans = 0
    /\ visits = NoVisits
    /\ response = NoResponse
    /\ pipeline = NoPipeline
    /\ first = [done |-> FALSE, chemin_trouve |-> <<>>, faits_deduits |-> {}]
    /\ invocations = NoInvocation
    /\ retrieval = NoRetrieval
    /\ hf_call = NoCall

SpecScenario == InitScenario /\ [][Next]_vars

\* the query resolved exactly the two entities and the graph holds the edge
ScenarioCase ==
    /\ QueryDone
    /\ Elements(initial_entities) = {FalseSharing, CacheLineAlignment}
    /\ ScenarioEdge \in graph

\* the label and type triples of the two entities
ScenarioNodeFacts ==
    {t \in graph : /\ t[1] \in {FalseSharing, CacheLineAlignment}
                   /\ t[2] \in {RDFS_label, RDF_type}}

\* the texts a term is shown as: the text of one of its label literals when
\* it has one, its local name otherwise
ShownAs(term, name) ==
    IF \E t \in graph : t[1] = term /\ t[2] = RDFS_label /\ IsLiteral(t[3])
    THEN {t[3].val : t \in {u \in graph : /\ u[1] = term
                                          /\ u[2] = RDFS_label
                                          /\ IsLiteral(u[3])}}
    ELSE {name}

-----------------------------------------------------------------------------
(* Two calls of _find_shortest_path running interleaved on one graph, for
   instance from two threads serving two questions; each call has its own
   start_node, end_node, queue and visited, and the calls take turns between
   two iterations of their while loops *)

Invocations == {1, 2}

ConcNodes == {EntA, EntB, EntC}

ConcTripleUniverse == {t \in ConcNodes \X {rel} \X ConcNodes : t[1] # t[3]}

ConcGraphs == {g \in SUBSET ConcTripleUniverse : Cardinality(g) <= MaxPathEdges}

\* an invocation that has not started yet
CallFrame(start, end) ==
    [pc |-> "call", start_node |-> start, end_node |-> end,
     queue |-> <<>>, visited |-> {}, result |-> None]

\* lines 120-129: the locals of an invocation when it reaches the while loop,
\* or its return value when start_node and end_node are the same node
EnteredFrame(start, end) ==
    IF SameNode(start, end)
    THEN [pc |-> "ret", start_node |-> start, end_node |-> end,
          queue |-> <<>>, visited |-> {}, result |-> Some(<<>>)]
    ELSE [pc |-> "bfs", start_node |-> start, end_node |-> end,
          queue |-> << <<start, <<>> >> >>, visited |-> {start}, result |-> None]

\* lines 132-162: an iteration of the while loop of an invocation whose
\* visited set is visited_, the edges of current being enumerated in the
\* orders outs and ins
Iteration(g, frame, visited_, outs, ins) ==
    LET d == popleft(frame.queue)
        current == d.item[1]
        path == d.item[2]
        s1 == Phase1(outs, current, path, frame.end_node,
                     [visited |-> visited_, queue |-> d.rest, ret |-> None])
        s2 == IF s1.ret.found THEN s1
              ELSE Phase2(ins, current, path, frame.end_node, s1)
    IN  IF s2.ret.found
        THEN [frame EXCEPT !.pc = "ret", !.result = s2.ret,
                           !.queue = <<>>, !.visited = {}]
        ELSE [frame EXCEPT !.queue = s2.queue, !.visited = s2.visited]

\* lines 132-162: the frames an invocation can have after its next iteration,
\* or after leaving the loop with an empty queue
IterationOutcomes(g, frame, visited_) ==
    IF frame.queue = <<>>
    THEN {[frame EXCEPT !.pc = "ret", !.result = None]}
    ELSE LET current == popleft(frame.queue).item[1]
         IN  {Iteration(g, frame, visited_, outs, ins) :
                 outs \in Orders(predicate_objects(g, current)),
                 ins \in Orders(subject_predicates(g, current))}

\* Mutant: visited is one set shared by the invocations
shared_visited(frames, i) == UNION {frames[j].visited : j \in DOMAIN frames}

\* line 129: visited is a local variable of the invocation
own_visited(frames, i) == frames[i].visited

InitConc ==
    /\ graph \in ConcGraphs
    /\ invocations \in [Invocations -> {CallFrame(a, b) : a, b \in ConcNodes}]
    /\ question = <<>>
    /\ pc = "threads"
    /\ caller = "threads"
    /\ initial_entities = <<>>
    /\ pair_index = 0
    /\ start_node = EntA
    /\ end_node = EntA
    /\ queue = <<>>
    /\ visited = {}
    /\ result = None
    /\ path_found = None
    /\ all_facts_triplets = {}
    /\ regime = "none"
    /\ report = NoReport
    /\ calls = 0
    /\ scans = 0
    /\ visits = NoVisits
    /\ response = NoResponse
    /\ pipeline = NoPipeline
    /\ first = [done |-> FALSE, chemin_trouve |-> <<>>, faits_deduits |-> {}]
    /\ retrieval = NoRetrieval
    /\ hf_call = NoCall

\* an invocation enters _find_shortest_path
InvocationEnters ==
    /\ caller = "threads"
    /\ \E i \in Invocations :
         /\ invocations[i].pc = "call"
         /\ invocations' = [invocations EXCEPT ![i] =
                EnteredFrame(invocations[i].start_node, invocations[i].end_node)]
    /\ UNCHANGED <<graph, question, pc, caller, initial_entities, pair_index,
                   start_node, end_node, queue, visited, result, path_found,
                   all_facts_triplets, regime, report, calls, scans, first,
                   retrieval, hf_call, visits, response, pipeline>>

\* an invocation runs one iteration of its while loop
InvocationSteps ==
    /\ caller = "threads"
    /\ \E i \in Invocations :
         /\ invocations[i].pc = "bfs"
         /\ \E frame \in IterationOutcomes(graph, invocations[i],
                                           own_visited(invocations, i)) :
               invocations' = [invocations EXCEPT ![i] = frame]
    /\ UNCHANGED <<graph, question, pc, caller, initial_entities, pair_index,
                   start_node, end_node, queue, visited, result, path_found,
                   all_facts_triplets, regime, report, calls, scans, first,
                   retrieval, hf_call, visits, response, pipeline>>

NextConc == InvocationEnters \/ InvocationSteps

SpecConc == InitConc /\ [][NextConc]_vars

\* the values an invocation returns when it runs with no other invocation
RECURSIVE AloneResults(_, _)
AloneResults(g, frame) ==
    IF frame.pc = "ret" THEN {frame.result}
    ELSE UNION {AloneResults(g, f) : f \in IterationOutcomes(g, frame, frame.visited)}

\* C18: under every interleaving, what an invocation returns is a value it
\* returns when it runs alone on the same graph with the same arguments.
C18_InterleavedAsAlone ==
    (caller = "threads")
        => \A i \in Invocations :
              invocations[i].pc = "ret"
                 => invocations[i].result \in
                       AloneResults(graph, EnteredFrame(invocations[i].start_node,
                                                        invocations[i].end_node))

\* C18 witness: invocation 1 has returned a path of two hops from A to B
\* through C while invocation 2, which searches from B to A and has visited
\* C, is inside its loop.
C18_Witness ==
    /\ caller = "threads"
    /\ invocations[1].pc = "ret"
    /\ invocations[1].start_node = EntA
    /\ invocations[1].end_node = EntB
    /\ invocations[1].result.found
    /\ Len(invocations[1].result.hops) = 2
    /\ invocations[2].pc = "bfs"
    /\ invocations[2].start_node = EntB
    /\ invocations[2].end_node = EntA
    /\ invocations[2].visited = {EntB, EntC}

-----------------------------------------------------------------------------
(* ontology/ontology_retriever.py: _extract_keywords *)

\* lines 11-20
STOPWORDS_FR ==
    { <<"l", "e">>, <<"l", "a">>, <<"l", "e", "s">>, <<"d", "e">>,
      <<"d", "e", "s">>, <<"d", "u">>, <<"e", "t">>, <<"o", "u">>,
      <<"e", "s", "t">>, <<"s", "o", "n", "t">>, <<"u", "n">>,
      <<"u", "n", "e">>, <<"e", "n">>, <<"p", "o", "u", "r">>,
      <<"q", "u", "e">>, <<"q", "u", "i">>, <<"q", "u", "o", "i">>,
      <<"q", "u", "e", "l">>, <<"q", "u", "e", "l", "l", "e">>,
      <<"q", "u", "e", "l", "s">>, <<"q", "u", "e", "l", "l", "e", "s">>,
      <<"a", "v", "e", "c">>, <<"s", "a", "n", "s">>,
      <<"d", "a", "n", "s">>, <<"s", "u", "r">>, <<"s", "o", "u", "s">>,
      <<"p", "a", "r">>, <<"c", "e">>, <<"c", "e", "t">>,
      <<"c", "e", "t", "t", "e">>, <<"c", "e", "s">>, <<"m", "o", "n">>,
      <<"m", "a">>, <<"m", "e", "s">>, <<"t", "o", "n">>, <<"t", "a">>,
      <<"t", "e", "s">>, <<"s", "o", "n">>, <<"s", "a">>,
      <<"s", "e", "s">>, <<"n", "o", "t", "r", "e">>, <<"n", "o", "s">>,
      <<"v", "o", "t", "r", "e">>, <<"v", "o", "s">>,
      <<"l", "e", "u", "r">>, <<"l", "e", "u", "r", "s">>, <<"j", "e">>,
      <<"t", "u">>, <<"i", "l">>, <<"e", "l", "l", "e">>,
      <<"n", "o", "u", "s">>, <<"v", "o", "u", "s">>, <<"i", "l", "s">>,
      <<"e", "l", "l", "e", "s">>, <<"a", "i">>, <<"a", "s">>, <<"a">>,
      <<"a", "v", "o", "n", "s">>, <<"a", "v", "e", "z">>,
      <<"o", "n", "t">>, <<"s", "u", "i", "s">>, <<"e", "s">>,
      <<"s", "o", "m", "m", "e", "s">>, <<"e", "t", "e", "s">>,
      <<"é", "t", "a", "i", "s">>, <<"é", "t", "a", "i", "t">>,
      <<"é", "t", "i", "o", "n", "s">>, <<"é", "t", "i", "e", "z">>,
      <<"é", "t", "a", "i", "e", "n", "t">>, <<"s", "e", "r", "a", "i">>,
      <<"s", "e", "r", "a", "s">>, <<"s", "e", "r", "a">>,
      <<"s", "e", "r", "o", "n", "s">>, <<"s", "e", "r", "e", "z">>,
      <<"s", "e", "r", "o", "n", "t">>,
      <<"c", "o", "m", "m", "e", "n", "t">>,
      <<"p", "o", "u", "r", "q", "u", "o", "i">>,
      <<"q", "u", "a", "n", "d">>, <<"o", "ù">>, <<"y">>,
      <<"a", "-", "t", "-", "i", "l">> }

\* lines 21-28
STOPWORDS_EN ==
    { <<"a">>, <<"a", "n">>, <<"t", "h", "e">>, <<"i", "s">>,
      <<"a", "r", "e">>, <<"w", "a", "s">>, <<"w", "e", "r", "e">>,
      <<"b", "e">>, <<"b", "e", "e", "n">>, <<"b", "e", "i", "n", "g">>,
      <<"h", "a", "v", "e">>, <<"h", "a", "s">>, <<"h", "a", "d">>,
      <<"d", "o">>, <<"d", "o", "e", "s">>, <<"d", "i", "d">>,
      <<"w", "i", "l", "l">>, <<"w", "o", "u", "l", "d">>,
      <<"s", "h", "o", "u", "l", "d">>, <<"c", "a", "n">>,
      <<"c", "o", "u", "l", "d">>, <<"m", "a", "y">>,
      <<"m", "i", "g", "h", "t">>, <<"m", "u", "s", "t">>,
      <<"a", "n", "d">>, <<"o", "r">>, <<"b", "u", "t">>, <<"i", "f">>,
      <<"o", "f">>, <<"a", "t">>, <<"b", "y">>, <<"f", "o", "r">>,
      <<"w", "i", "t", "h">>, <<"a", "b", "o", "u", "t">>, <<"t", "o">>,
      <<"i", "n">>, <<"o", "n">>, <<"w", "h", "a", "t">>,
      <<"w", "h", "i", "c", "h">>, <<"w", "h", "o">>,
      <<"w", "h", "o", "m">>, <<"t", "h", "i", "s">>,
      <<"t", "h", "a", "t">>, <<"t", "h", "e", "s", "e">>,
      <<"t", "h", "o", "s", "e">>, <<"i">>, <<"y", "o", "u">>,
      <<"h", "e">>, <<"s", "h", "e">>, <<"i", "t">>, <<"w", "e">>,
      <<"t", "h", "e", "y">>, <<"m", "e">>, <<"h", "i", "m">>,
      <<"h", "e", "r">>, <<"u", "s">>, <<"t", "h", "e", "m">>,
      <<"m", "y">>, <<"y", "o", "u", "r">>, <<"h", "i", "s">>,
      <<"i", "t", "s">>, <<"o", "u", "r">>, <<"t", "h", "e", "i", "r">>,
      <<"m", "i", "n", "e">>, <<"y", "o", "u", "r", "s">>,
      <<"h", "e", "r", "s">>, <<"o", "u", "r", "s">>,
      <<"t", "h", "e", "i", "r", "s">>, <<"h", "o", "w">>,
      <<"w", "h", "y">>, <<"w", "h", "e", "n">>,
      <<"w", "h", "e", "r", "e">> }

\* line 30
COMBINED_STOPWORDS == STOPWORDS_FR \cup STOPWORDS_EN

\* the characters the regular expression class \w matches, among those the
\* texts of the model are written with
WordChars ==
    DOMAIN UpperToLower
        \cup {"a","b","c","d","e","f","g","h","i","j","k","l","m","n","o","p","q",
              "r","s","t","u","v","w","x","y","z","é","è","ù","_",
              "0","1","2","3","4","5","6","7","8","9"}

\* the characters the class \s matches and str.split() cuts at
Whitespace == {" ", "\t", "\n"}

\* line 46: re.sub(r'[^\w\s-]', '', text)
re_sub(text) ==
    SelectSeq(text, LAMBDA c : c \in WordChars \cup Whitespace \cup {"-"})

\* line 49: the words of text after the word being read, word included
RECURSIVE split(_, _)
split(text, word) ==
    IF text = <<>> THEN (IF word = <<>> THEN <<>> ELSE <<word>>)
    ELSE IF Head(text) \in Whitespace
         THEN (IF word = <<>> THEN <<>> ELSE <<word>>) \o split(Tail(text), <<>>)
         ELSE split(Tail(text), Append(word, Head(text)))

\* lines 61-62: kw.replace("-", by)
RECURSIVE replace_hyphen(_, _)
replace_hyphen(kw, by) ==
    IF kw = <<>> THEN <<>>
    ELSE (IF Head(kw) = "-" THEN by ELSE <<Head(kw)>>) \o replace_hyphen(Tail(kw), by)

\* lines 33-67
_extract_keywords(q) ==
    LET words == split(re_sub(lower(q)), <<>>)
        keywords == {w \in Elements(words) : w \notin COMBINED_STOPWORDS /\ Len(w) > 2}
        hyphenated == {kw \in keywords : \E i \in 1..Len(kw) : kw[i] = "-"}
    IN  keywords \cup {replace_hyphen(kw, <<>>) : kw \in hyphenated}
                 \cup {replace_hyphen(kw, <<" ">>) : kw \in hyphenated}

-----------------------------------------------------------------------------
(* ontology/ontology_retriever.py: get_node_label and retrieve_relevant_facts *)

RDFS_comment == URIRef(<<"rdfs", "#", "comment">>)
medical_nom == URIRef(<<"medical", "#", "nom">>)
dcterms_title == URIRef(<<"dcterms", "/", "title">>)
dcterms_description == URIRef(<<"dcterms", "/", "description">>)
skos_prefLabel == URIRef(<<"skos", "#", "prefLabel">>)
skos_definition == URIRef(<<"skos", "#", "definition">>)

\* line 77: the labeling properties, in the order they are tried
label_props == <<RDFS_label, medical_nom, dcterms_title, skos_prefLabel>>

\* lines 128-134
target_literal_properties ==
    {RDFS_label, RDFS_comment, medical_nom, dcterms_description, skos_definition}

\* line 171
priority_props == <<RDFS_label, medical_nom, RDFS_comment>>

\* line 188
max_other_props_per_subject == 3

\* line 155: the prefixes the graph binds
prefixes == {"rdf", "rdfs", "onto"}

\* lines 83-95: the qualified name of a node whose prefix is bound, its
\* identifier between angle brackets otherwise
Fallback(node) ==
    IF node.val[1] \in prefixes
    THEN <<node.val[1], ":">> \o AfterLast(AfterLast(node.val, "#"), "/")
    ELSE <<"<">> \o node.val \o <<">">>

\* lines 77-80: the values get_node_label can return from the k-th labeling
\* property on (graph.value returns any one object of the property)
RECURSIVE LabelFrom(_, _, _)
LabelFrom(g, node, k) ==
    IF k > Len(label_props) THEN {Fallback(node)}
    ELSE LET labels == value_objects(g, node, label_props[k])
         IN  IF labels = {} THEN LabelFrom(g, node, k + 1)
             ELSE UNION {IF TermTruthy(label) THEN {label.val}
                         ELSE LabelFrom(g, node, k + 1) : label \in labels}

\* lines 69-95
get_node_label(g, node) ==
    IF ~IsURIRef(node) THEN {node.val} ELSE LabelFrom(g, node, 1)

\* the answers of get_node_label for the terms of a set: one answer per term,
\* the same each time it is asked while the graph is unchanged
RECURSIVE Labellings(_, _)
Labellings(g, terms) ==
    IF terms = {} THEN {[t \in {} |-> <<>>]}
    ELSE LET term == CHOOSE t \in terms : TRUE
         IN  {(term :> label) @@ rest : label \in get_node_label(g, term),
                                        rest \in Labellings(g, terms \ {term})}

\* lines 142-150: found_subjects
found_subjects(g, keywords) ==
    {t[1] : t \in {u \in g : /\ u[2] \in target_literal_properties
                             /\ IsLiteral(u[3])
                             /\ \E keyword \in keywords :
                                   IsSubstring(keyword, lower(u[3].val))
                             /\ IsURIRef(u[1])}}

\* ', '.join(texts)
RECURSIVE join(_)
join(texts) ==
    IF texts = <<>> THEN <<>>
    ELSE IF Len(texts) = 1 THEN texts[1]
         ELSE texts[1] \o <<", ">> \o join(Tail(texts))

\* lines 166-167: type_info_str, the types enumerated in the order types
type_info_str(types, lab) ==
    IF types = <<>> THEN <<>>
    ELSE <<" (type: ">> \o join([i \in 1..Len(types) |-> lab[types[i]]]) \o <<")">>

\* lines 178-179, 204-205: if fact_str not in retrieved_facts: append
append_if_new(retrieved_facts, fact_str) ==
    IF fact_str \in Elements(retrieved_facts) THEN retrieved_facts
    ELSE Append(retrieved_facts, fact_str)

\* lines 174-181: the loop over the objects rows of one priority property
RECURSIVE PriorityObjects(_, _, _, _, _)
PriorityObjects(rows, head_text, prop_label, retrieved_facts, max_facts) ==
    IF rows = <<>> THEN retrieved_facts
    ELSE IF IsLiteral(Head(rows))
         THEN LET fact_str == head_text \o <<" - ">> \o prop_label \o <<": ">>
                                  \o Head(rows).val
                  facts == append_if_new(retrieved_facts, fact_str)
              IN  IF Len(facts) >= max_facts THEN facts
                  ELSE PriorityObjects(Tail(rows), head_text, prop_label, facts,
                                       max_facts)
         ELSE PriorityObjects(Tail(rows), head_text, prop_label, retrieved_facts,
                              max_facts)

\* lines 173-182: the loop over priority_props from the k-th one on; orders[k]
\* is the order in which the objects of the k-th property are enumerated
RECURSIVE PriorityProps(_, _, _, _, _, _)
PriorityProps(k, orders, head_text, lab, retrieved_facts, max_facts) ==
    IF k > Len(priority_props) THEN retrieved_facts
    ELSE LET facts == PriorityObjects(orders[k], head_text, lab[priority_props[k]],
                                      retrieved_facts, max_facts)
         IN  IF Len(facts) >= max_facts THEN facts
             ELSE PriorityProps(k + 1, orders, head_text, lab, facts, max_facts)

\* lines 190-210: the loop over the triples rows of the subject; st is
\* [retrieved_facts, other_props_count]
RECURSIVE OtherProps(_, _, _, _, _)
OtherProps(rows, head_text, lab, st, max_facts) ==
    IF rows = <<>> THEN st.retrieved_facts
    ELSE LET p == Head(rows)[2]
             o == Head(rows)[3]
         IN  IF p \in Elements(priority_props)
             THEN OtherProps(Tail(rows), head_text, lab, st, max_facts)
             ELSE LET obj_str == IF IsURIRef(o) THEN lab[o] ELSE o.val
                      fact_str == head_text \o <<" - ">> \o lab[p] \o <<": ">> \o obj_str
                      facts == append_if_new(st.retrieved_facts, fact_str)
                      count == IF fact_str \in Elements(st.retrieved_facts)
                               THEN st.other_props_count
                               ELSE st.other_props_count + 1
                  IN  IF count >= max_other_props_per_subject \/ Len(facts) >= max_facts
                      THEN facts
                      ELSE OtherProps(Tail(rows), head_text, lab,
                                      [retrieved_facts |-> facts,
                                       other_props_count |-> count],
                                      max_facts)

\* lines 163-212: the body of the loop for one subject: the values of
\* retrieved_facts afterwards, and whether line 212 counted the subject (it
\* does not when line 183 continues)
SubjectOutcomes(g, subject_uri, retrieved_facts, max_facts) ==
    LET types == {o \in value_objects(g, subject_uri, RDF_type) : IsURIRef(o)}
        triples == triples_of_subject(g, subject_uri)
        terms == {subject_uri} \cup types \cup Elements(priority_props)
                    \cup {t[2] : t \in triples}
                    \cup {t[3] : t \in {u \in triples : IsURIRef(u[3])}}
    IN  {LET head_text == lab[subject_uri] \o type_info_str(subject_types, lab)
             facts == PriorityProps(1, <<o1, o2, o3>>, head_text, lab,
                                    retrieved_facts, max_facts)
         IN  IF Len(facts) >= max_facts
             THEN [retrieved_facts |-> facts, counted |-> FALSE]
             ELSE [retrieved_facts |->
                      OtherProps(rows, head_text, lab,
                                 [retrieved_facts |-> facts, other_props_count |-> 0],
                                 max_facts),
                   counted |-> TRUE] :
            lab \in Labellings(g, terms),
            subject_types \in Orders(types),
            o1 \in Orders(value_objects(g, subject_uri, priority_props[1])),
            o2 \in Orders(value_objects(g, subject_uri, priority_props[2])),
            o3 \in Orders(value_objects(g, subject_uri, priority_props[3])),
            rows \in Orders(triples)}

\* Mutant: the list is returned whole
sliced_whole(retrieved_facts, max_facts) == retrieved_facts

\* line 223: retrieved_facts[:max_facts], max_facts being 0 or more
sliced(retrieved_facts, max_facts) ==
    SubSeq(retrieved_facts, 1,
           IF Len(retrieved_facts) < max_facts THEN Len(retrieved_facts) ELSE max_facts)

-----------------------------------------------------------------------------
(* retrieve_relevant_facts on small ontologies *)

MaxRetrievalTriples == 4
MaxFactsArgument == 2
MaxSubjectsArgument == 2

RetrievalTripleUniverse ==
    { <<EntA, RDFS_label, Literal(<<"a", "b", "c">>)>>,
      <<EntB, RDFS_label, Literal(<<"a", "b", "c">>)>>,
      <<EntC, RDFS_label, Literal(<<"X", "a", "b", "c">>)>>,
      <<EntA, RDFS_comment, Literal(<<"a", "b", "c", " ", "d">>)>>,
      <<EntA, rel, EntB>>,
      <<EntA, rel2, Literal(<<"x">>)>>,
      <<EntA, RDF_type, ClassK>>,
      <<Blank, RDFS_label, Literal(<<"a", "b", "c">>)>> }

RetrievalGraphs ==
    {g \in SUBSET RetrievalTripleUniverse : Cardinality(g) <= MaxRetrievalTriples}

RetrievalQuestions ==
    { <<>>,
      <<"t", "h", "e">>,
      <<"A", "B", "C", "?">>,
      <<"I", "s", " ", "i", "t", " ", "a", "b", "c", "-", "d", "?">> }

InitRetrieval ==
    /\ graph \in RetrievalGraphs
    /\ question \in RetrievalQuestions
    /\ \E max_facts \in 0..MaxFactsArgument :
         \E max_subjects_to_process \in 1..MaxSubjectsArgument :
            retrieval = [pc |-> "call",
                         max_facts |-> max_facts,
                         max_subjects_to_process |-> max_subjects_to_process,
                         subjects |-> <<>>,
                         subjects_processed_count |-> 0,
                         retrieved_facts |-> <<>>,
                         returned |-> <<>>]
    /\ pc = "retrieval"
    /\ caller = "retriever"
    /\ initial_entities = <<>>
    /\ pair_index = 0
    /\ start_node = EntA
    /\ end_node = EntA
    /\ queue = <<>>
    /\ visited = {}
    /\ result = None
    /\ path_found = None
    /\ all_facts_triplets = {}
    /\ regime = "none"
    /\ report = NoReport
    /\ calls = 0
    /\ scans = 0
    /\ visits = NoVisits
    /\ response = NoResponse
    /\ pipeline = NoPipeline
    /\ first = [done |-> FALSE, chemin_trouve |-> <<>>, faits_deduits |-> {}]
    /\ invocations = NoInvocation
    /\ hf_call = NoCall

\* lines 119-157: the keywords, the early return, the matched subjects; the
\* field subjects is list(found_subjects), in any order, as far as the loop
\* of line 158 still has to go through it
RetrieveCall ==
    /\ caller = "retriever"
    /\ retrieval.pc = "call"
    /\ LET keywords == _extract_keywords(question)
       IN  IF keywords = {}
           THEN retrieval' = [retrieval EXCEPT !.pc = "returned", !.returned = <<>>]
           ELSE \E subjects \in Orders(found_subjects(graph, keywords)) :
                   retrieval' = [retrieval EXCEPT !.pc = "loop", !.subjects = subjects]
    /\ UNCHANGED <<graph, question, pc, caller, initial_entities, pair_index,
                   start_node, end_node, queue, visited, result, path_found,
                   all_facts_triplets, regime, report, calls, scans, first,
                   invocations, hf_call, visits, response, pipeline>>

\* lines 158-215: one iteration of the loop over the matched subjects
RetrieveSubject ==
    /\ caller = "retriever"
    /\ retrieval.pc = "loop"
    /\ retrieval.subjects # <<>>
    /\ retrieval.subjects_processed_count < retrieval.max_subjects_to_process
    /\ \E out \in SubjectOutcomes(graph, Head(retrieval.subjects),
                                  retrieval.retrieved_facts, retrieval.max_facts) :
         retrieval' = [retrieval EXCEPT
            !.subjects = Tail(retrieval.subjects),
            !.retrieved_facts = out.retrieved_facts,
            !.subjects_processed_count = IF out.counted THEN @ + 1 ELSE @,
            !.pc = IF out.counted /\ Len(out.retrieved_facts) >= retrieval.max_facts
                   THEN "break" ELSE "loop"]
    /\ UNCHANGED <<graph, question, pc, caller, initial_entities, pair_index,
                   start_node, end_node, queue, visited, result, path_found,
                   all_facts_triplets, regime, report, calls, scans, first,
                   invocations, hf_call, visits, response, pipeline>>

\* lines 158-161, 213-223: the loop is left and the list is returned
RetrieveReturn ==
    /\ caller = "retriever"
    /\ \/ retrieval.pc = "break"
       \/ /\ retrieval.pc = "loop"
          /\ \/ retrieval.subjects = <<>>
             \/ retrieval.subjects_processed_count >= retrieval.max_subjects_to_process
    /\ retrieval' = [retrieval EXCEPT
          !.pc = "returned",
          !.returned = sliced(retrieval.retrieved_facts, retrieval.max_facts)]
    /\ UNCHANGED <<graph, question, pc, caller, initial_entities, pair_index,
                   start_node, end_node, queue, visited, result, path_found,
                   all_facts_triplets, regime, report, calls, scans, first,
                   invocations, hf_call, visits, response, pipeline>>

NextRetrieval == RetrieveCall \/ RetrieveSubject \/ RetrieveReturn

SpecRetrieval == InitRetrieval /\ [][NextRetrieval]_vars

Retrieved == caller = "retriever" /\ retrieval.pc = "returned"

\* C19: retrieve_relevant_facts returns at most max_facts fact strings and no
\* fact string twice.
C19_AtMostMaxFactsNoDuplicate ==
    Retrieved
        => /\ Len(retrieval.returned) <= retrieval.max_facts
           /\ \A i, j \in 1..Len(retrieval.returned) :
                 i # j => retrieval.returned[i] # retrieval.returned[j]

\* C19 witness: max_facts is 1 and three subjects match, more than
\* max_subjects_to_process; the priority fact of a subject reached the limit,
\* the loop went on to the next subjects without counting it and the list grew
\* to two facts, of which one is returned.
C19_Witness ==
    /\ Retrieved
    /\ retrieval.max_facts = 1
    /\ Cardinality(found_subjects(graph, _extract_keywords(question))) = 3
    /\ retrieval.subjects_processed_count = 0
    /\ Len(retrieval.retrieved_facts) = 2
    /\ Len(retrieval.returned) = 1

-----------------------------------------------------------------------------
(* llm/hf_llm_caller.py: call_hf_inference_api

   The environment is the value of HF_TOKEN and what requests.post meets: a
   timeout, a connection error, or a response with a status code and a body.
   A body is the JSON value response.json() decodes, or undecodable: a record
   [type, keys, value_type, text] where type is "dict", "list_dict" (a list
   whose first element is a dict), "list_str" (a list whose one element is a
   string), "list_empty", "str", "number", "null" or "undecodable"; keys are
   the keys of the dict, value_type the type of the value of "generated_text",
   text that value or the string. *)

\* str.strip()
RECURSIVE lstrip(_)
lstrip(text) ==
    IF text # <<>> /\ Head(text) \in Whitespace THEN lstrip(Tail(text)) ELSE text

RECURSIVE rstrip(_)
rstrip(text) ==
    IF text # <<>> /\ text[Len(text)] \in Whitespace
    THEN rstrip(SubSeq(text, 1, Len(text) - 1)) ELSE text

strip(text) == rstrip(lstrip(text))

Body(type, keys, value_type, text) ==
    [type |-> type, keys |-> keys, value_type |-> value_type, text |-> text]

Bodies ==
    {Body(type, {}, "null", <<>>) :
        type \in {"undecodable", "null", "number", "list_empty"}}
    \cup {Body(type, {}, "null", text) :
            type \in {"str", "list_str"},
            text \in {<<"x">>, <<"e", "r", "r", "o", "r">>,
                      <<"e", "s", "t", "i", "m", "a", "t", "e", "d", "_", "t", "i", "m", "e">>}}
    \cup {Body(type, keys, "null", <<>>) :
            type \in {"dict", "list_dict"},
            keys \in SUBSET {"generated_text", "error", "estimated_time"}}
    \cup {Body(type, keys \cup {"generated_text"}, "str", <<" ", "o", "k", "\n">>) :
            type \in {"dict", "list_dict"},
            keys \in SUBSET {"error", "estimated_time"}}

StatusCodes == {200, 401, 429, 500, 503}

Replies ==
    {[transport |-> t, status_code |-> 200, body |-> Body("null", {}, "null", <<>>)] :
        t \in {"timeout", "connection_error"}}
    \cup {[transport |-> "response", status_code |-> c, body |-> b] :
            c \in StatusCodes, b \in Bodies}

\* the value a function call ends with: a returned text, None, or an
\* exception that leaves the function
Returns(text) == [outcome |-> "text", text |-> text]
ReturnsNone == [outcome |-> "none", text |-> <<>>]
Raises == [outcome |-> "raised", text |-> <<>>]

\* key in value: the evaluation raises TypeError on None and on a number
KeyIn(key, name, body) ==
    CASE body.type \in {"null", "number"} -> "TypeError"
      [] body.type = "str" -> IF IsSubstring(key, body.text) THEN "true" ELSE "false"
      [] body.type = "list_str" -> IF body.text = key THEN "true" ELSE "false"
      [] body.type \in {"list_empty", "list_dict"} -> "false"
      [] OTHER -> IF name \in body.keys THEN "true" ELSE "false"

\* lines 110-131: the handler of requests.exceptions.HTTPError; an exception
\* raised inside it other than json.JSONDecodeError leaves the function, the
\* except clauses of lines 133-139 belonging to the same try statement
HTTPErrorHandler(reply) ==
    IF reply.body.type = "undecodable" THEN ReturnsNone
    ELSE LET estimated == IF reply.status_code = 503
                          THEN KeyIn(<<"e", "s", "t", "i", "m", "a", "t", "e", "d", "_", "t", "i", "m", "e">>,
                                     "estimated_time", reply.body)
                          ELSE "false"
             error == KeyIn(<<"e", "r", "r", "o", "r">>, "error", reply.body)
         IN  CASE estimated = "TypeError" -> Raises
               [] estimated = "true" ->
                    IF reply.body.type = "dict" THEN ReturnsNone ELSE Raises
               [] error = "TypeError" -> Raises
               [] error = "true" ->
                    IF reply.body.type = "dict" THEN ReturnsNone ELSE Raises
               [] OTHER -> ReturnsNone

\* lines 91, 97: return generated_text.strip(); the AttributeError of a value
\* that is no string is caught at line 139
StrippedText(body) ==
    IF body.value_type = "str" THEN Returns(strip(body.text)) ELSE ReturnsNone

\* lines 79-108: the body of a response whose status is no error
Parsed(body) ==
    CASE body.type = "undecodable" -> ReturnsNone
      [] body.type = "list_dict" ->
            IF "generated_text" \in body.keys THEN StrippedText(body) ELSE ReturnsNone
      [] body.type = "dict" ->
            IF "generated_text" \in body.keys THEN StrippedText(body) ELSE ReturnsNone
      [] OTHER -> ReturnsNone

\* line 77: response.raise_for_status() raises for the codes 400 to 599
IsErrorStatus(status_code) == status_code >= 400 /\ status_code < 600

\* lines 75-141
Answer(reply) ==
    CASE reply.transport = "timeout" -> ReturnsNone
      [] reply.transport = "connection_error" -> ReturnsNone
      [] OTHER -> IF IsErrorStatus(reply.status_code) THEN HTTPErrorHandler(reply)
                  ELSE Parsed(reply.body)

InitHf ==
    /\ \E hf_token \in {"unset", "empty", "set"} :
         \E reply \in Replies :
            hf_call = [pc |-> "call", hf_token |-> hf_token, reply |-> reply,
                       requests_sent |-> 0, ended |-> ReturnsNone]
    /\ graph = {}
    /\ question = <<>>
    /\ pc = "hf"
    /\ caller = "hf"
    /\ initial_entities = <<>>
    /\ pair_index = 0
    /\ start_node = EntA
    /\ end_node = EntA
    /\ queue = <<>>
    /\ visited = {}
    /\ result = None
    /\ path_found = None
    /\ all_facts_triplets = {}
    /\ regime = "none"
    /\ report = NoReport
    /\ calls = 0
    /\ scans = 0
    /\ visits = NoVisits
    /\ response = NoResponse
    /\ pipeline = NoPipeline
    /\ first = [done |-> FALSE, chemin_trouve |-> <<>>, faits_deduits |-> {}]
    /\ invocations = NoInvocation
    /\ retrieval = NoRetrieval

\* lines 31-34: without a token the function returns None
HfNoToken ==
    /\ caller \in {"hf", "respond"}
    /\ hf_call.pc = "call"
    /\ hf_call.hf_token \in {"unset", "empty"}
    /\ hf_call' = [hf_call EXCEPT !.pc = "ended", !.ended = ReturnsNone]
    /\ UNCHANGED <<graph, question, pc, caller, initial_entities, pair_index,
                   start_node, end_node, queue, visited, result, path_found,
                   all_facts_triplets, regime, report, calls, scans, first,
                   invocations, retrieval, visits, response, pipeline>>

\* lines 36-76: the request is sent
HfPost ==
    /\ caller \in {"hf", "respond"}
    /\ hf_call.pc = "call"
    /\ hf_call.hf_token = "set"
    /\ hf_call' = [hf_call EXCEPT !.pc = "sent", !.requests_sent = @ + 1]
    /\ UNCHANGED <<graph, question, pc, caller, initial_entities, pair_index,
                   start_node, end_node, queue, visited, result, path_found,
                   all_facts_triplets, regime, report, calls, scans, first,
                   invocations, retrieval, visits, response, pipeline>>

\* lines 76-141: requests.post ends and the function with it
HfAnswer ==
    /\ caller \in {"hf", "respond"}
    /\ hf_call.pc = "sent"
    /\ hf_call' = [hf_call EXCEPT !.pc = "ended", !.ended = Answer(hf_call.reply)]
    /\ UNCHANGED <<graph, question, pc, caller, initial_entities, pair_index,
                   start_node, end_node, queue, visited, result, path_found,
                   all_facts_triplets, regime, report, calls, scans, first,
                   invocations, retrieval, visits, response, pipeline>>

NextHf == HfNoToken \/ HfPost \/ HfAnswer

SpecHf == InitHf /\ [][NextHf]_vars

HfEnded == caller = "hf" /\ hf_call.pc = "ended"

\* the API answered with a status that is no error and a JSON value that is
\* a dict, or a list starting with a dict, with the field "generated_text"
AnsweredWithText(reply) ==
    /\ reply.transport = "response"
    /\ ~IsErrorStatus(reply.status_code)
    /\ reply.body.type \in {"dict", "list_dict"}
    /\ "generated_text" \in reply.body.keys

\* C20: the call ends by returning; it returns a text only when HF_TOKEN is
\* set and the API answered successfully with a "generated_text" field, and
\* then the text of that field; it returns None in every other outcome, and
\* without HF_TOKEN it returns None and no request was sent.
C20_TextOnlyOnSuccess ==
    HfEnded
        => /\ hf_call.ended.outcome # "raised"
           /\ hf_call.ended.outcome = "text"
                 => /\ hf_call.hf_token = "set"
                    /\ AnsweredWithText(hf_call.reply)
                    /\ hf_call.ended.text = strip(hf_call.reply.body.text)
           /\ (hf_call.hf_token # "set" \/ ~AnsweredWithText(hf_call.reply))
                 => hf_call.ended = ReturnsNone
           /\ hf_call.hf_token # "set" => hf_call.requests_sent = 0

-----------------------------------------------------------------------------
(* Claims on the paths and the bookkeeping of _find_shortest_path, checked   *)
(* under SpecPath                                                            *)

\* C21: every triple of a returned path is a triple of the graph, with the
\* subject, predicate and object it is stored with; a hop made against the
\* direction of its edge is recorded as (neighbour, predicate, current node).
C21_HopsAreStoredTriples ==
    (SearchReturned /\ result.found)
        => \A i \in 1..Len(result.hops) : result.hops[i] \in graph

\* C21 witness: the search from A to B on A -> C <- B goes with the first edge
\* and against the second; both hops are the stored triples.
C21_Witness ==
    /\ SearchReturned
    /\ graph = {<<EntA, rel, EntC>>, <<EntB, rel, EntC>>}
    /\ start_node = EntA /\ end_node = EntB
    /\ result = Some(<< <<EntA, rel, EntC>>, <<EntB, rel, EntC>> >>)

\* the nodes a walk can end at that starts at node n and takes the hops in
\* their order, each hop in either direction
RECURSIVE ChainEnds(_, _)
ChainEnds(hops, n) ==
    IF hops = <<>> THEN {n}
    ELSE LET h == Head(hops)
             next == (IF h[1] = n THEN {h[3]} ELSE {})
                        \cup (IF h[3] = n THEN {h[1]} ELSE {})
         IN  UNION {ChainEnds(Tail(hops), m) : m \in next}

\* C22: a non-empty returned path is a chain: the start node is the subject or
\* the object of its first triple, the end node of its last triple, and each
\* triple starts at the node the triple before it reached.
C22_PathIsChain ==
    (SearchReturned /\ result.found /\ result.hops # <<>>)
        => /\ end_node \in ChainEnds(result.hops, start_node)
           /\ start_node \in {result.hops[1][1], result.hops[1][3]}
           /\ end_node \in {result.hops[Len(result.hops)][1],
                            result.hops[Len(result.hops)][3]}

\* C22 witness: the search from A to B on A <- C -> B: the first hop goes
\* against its edge and reaches C, the second starts at C and reaches B.
C22_Witness ==
    /\ SearchReturned
    /\ graph = {<<EntC, rel, EntA>>, <<EntC, rel, EntB>>}
    /\ start_node = EntA /\ end_node = EntB
    /\ result = Some(<< <<EntC, rel, EntA>>, <<EntC, rel, EntB>> >>)

\* how often x was counted
Times(bag, x) == IF x \in DOMAIN bag THEN bag[x] ELSE 0

SearchRunning == caller = "test" /\ pc \in {"bfs", "ret"}

\* what the claim says of the nodes: a node is in visited from the moment it is
\* enqueued, and it is enqueued and dequeued at most once
NodesOnce ==
    /\ pc = "bfs" => /\ \A i \in 1..Len(queue) : queue[i][1] \in visited
                     /\ DOMAIN visits.enqueued = visited
    /\ \A n \in DOMAIN visits.enqueued : visits.enqueued[n] = 1
    /\ \A n \in DOMAIN visits.dequeued : visits.dequeued[n] = 1 /\ n \in DOMAIN visits.enqueued

-----------------------------------------------------------------------------
(* Termination of a query: graphs with a self-loop, parallel edges, opposite *)
(* edges and cycles                                                          *)

MaxLiveEdges == 3

LiveTripleUniverse ==
    {<<EntA, rel, EntA>>,
     <<EntA, rel, EntB>>,
     <<EntA, rel2, EntB>>,
     <<EntB, rel, EntA>>,
     <<EntB, rel, EntC>>,
     <<EntC, rel, EntA>>,
     <<EntA, RDF_type, ClassK>>,
     <<ClassK, RDFS_label, EntA>>}

LiveGraphs ==
    {QueryLabels \cup g : g \in {h \in SUBSET LiveTripleUniverse :
                                    Cardinality(h) <= MaxLiveEdges}}

LiveQuestions ==
    { <<"B", " ", "a", "A">>,
      <<"a", "a", "b", "c">> }

InitLive ==
    /\ graph \in LiveGraphs
    /\ question \in LiveQuestions
    /\ pc = "start"
    /\ caller = "query"
    /\ initial_entities = <<>>
    /\ pair_index = 0
    /\ start_node = EntA
    /\ end_node = EntA
    /\ queue = <<>>
    /\ visited = {}
    /\ result = None
    /\ path_found = None
    /\ all_facts_triplets = {}
    /\ regime = "none"
    /\ report = NoReport
    /\ calls = 0
    /\ scans = 0
    /\ visits = NoVisits
    /\ response = NoResponse
    /\ pipeline = NoPipeline
    /\ first = [done |-> FALSE, chemin_trouve |-> <<>>, faits_deduits |-> {}]
    /\ invocations = NoInvocation
    /\ retrieval = NoRetrieval
    /\ hf_call = NoCall

\* find_reasoning_path is synchronous and single-threaded (no step waits for
\* anything outside the call): a call that can take its next step takes it
LiveSpec == InitLive /\ [][Next]_vars /\ WF_vars(Next)

\* every search a query starts returns
SearchTerminates == (pc = "bfs") ~> (pc = "ret")

\* C24: every _find_shortest_path invocation terminates, and every
\* find_reasoning_path query runs to completion and returns a report.
C24_TerminatesAndReports ==
    /\ SearchTerminates
    /\ (pc = "start") ~> (pc = "done")

-----------------------------------------------------------------------------
(* Claims on the pair loop and the report of find_reasoning_path, checked    *)
(* under Spec                                                                *)

\* the pair loop of the query is over
PairsOver == caller = "query" /\ pc \in {"collect", "done", "raised"}

\* the rank of the first connected pair in the order of the enumeration
FirstConnectedRank ==
    CHOOSE k \in 1..(Len(initial_entities) * (Len(initial_entities) - 1)) :
        /\ \E ij \in ConnectedPositions :
              k = PairRank(Len(initial_entities), ij[1], ij[2])
        /\ \A kl \in ConnectedPositions :
              k <= PairRank(Len(initial_entities), kl[1], kl[2])

\* C25: a query with n resolved entities invokes _find_shortest_path at most
\* n(n-1) times: exactly n(n-1) times when no pair is connected, exactly k
\* times when the k-th pair of the enumeration is the first connected one.
C25_SearchCount ==
    caller = "query"
        => LET n == Len(initial_entities)
           IN  /\ calls <= n * (n - 1)
               /\ (PairsOver /\ n >= 2 /\ ConnectedPositions = {})
                     => calls = n * (n - 1)
               /\ (PairsOver /\ n >= 2 /\ ConnectedPositions # {})
                     => calls = FirstConnectedRank

\* C25 witness: A, B, C are resolved in this order, A is joined to neither and
\* B to C: (B, C) is the fourth pair and four searches were made.
C25_Witness ==
    /\ QueryDone
    /\ initial_entities = <<EntA, EntB, EntC>>
    /\ ~Connected(graph, EntA, EntB) /\ ~Connected(graph, EntA, EntC)
    /\ Connected(graph, EntB, EntC)
    /\ calls = 4

\* the texts an entity or a predicate can be shown as: the text of one of its
\* label literals, or its local name when it has no label or an empty one
Shown(term) ==
    LET labels == {t[3] : t \in {u \in graph : u[1] = term /\ u[2] = RDFS_label}}
        name == <<term.val[Len(term.val)]>>
    IN  IF labels = {} THEN {name}
        ELSE {l.val : l \in {k \in labels : IsLiteral(k) /\ k.val # <<>>}}
                \cup (IF \E l \in labels : l.val = <<>> THEN {name} ELSE {})

\* the strings a collected triple can be written as: a literal object between
\* double quotes, an entity object by what it is shown as
Rendered(t) ==
    {s \o <<" --[">> \o p \o <<"]--> ">> \o o :
        s \in Shown(t[1]), p \in Shown(t[2]),
        o \in IF IsURIRef(t[3]) THEN Shown(t[3])
              ELSE {<<"\"">> \o t[3].val \o <<"\"">>}}

\* the number of elements a tally counts
RECURSIVE TallySize(_, _)
TallySize(bag, S) ==
    IF S = {} THEN 0
    ELSE LET x == CHOOSE y \in S : TRUE
         IN  bag[x] + TallySize(bag, S \ {x})

\* C26: the report lists one label per resolved entity, in the order of the
\* entity list; one string per triple of the path, in the order of the path,
\* and none when there is no path; and exactly one string per distinct
\* collected triple, a literal object written between quotes and an entity
\* object as its label.
C26_ReportLists ==
    QueryDone
        => LET hops == IF Truthy(path_found) THEN path_found.hops ELSE <<>>
               facts == report.faits_deduits
           IN  /\ Len(report.entites_initiales) = Len(initial_entities)
               /\ \A i \in 1..Len(initial_entities) :
                     report.entites_initiales[i] \in Shown(initial_entities[i])
               /\ Len(report.chemin_trouve) = Len(hops)
               /\ \A i \in 1..Len(hops) : report.chemin_trouve[i] \in Rendered(hops[i])
               /\ TallySize(facts, DOMAIN facts) = Cardinality(all_facts_triplets)
               /\ \A text \in DOMAIN facts :
                     \E t \in all_facts_triplets : text \in Rendered(t)
               /\ \A t \in all_facts_triplets :
                     \E text \in DOMAIN facts : text \in Rendered(t)

\* C26 witness: B and A are resolved in this order and joined by B -> A; the
\* labels are listed in that order, the path is the one hop, and the three
\* facts are the hop and the two label triples with their texts in quotes.
C26_Witness ==
    /\ QueryDone
    /\ initial_entities = <<EntB, EntA>>
    /\ graph = QueryLabels \cup {<<EntB, rel, EntA>>}
    /\ report.entites_initiales = <<LabelB, LabelA>>
    /\ report.chemin_trouve = << LabelB \o <<" --[">> \o <<"rel">> \o <<"]--> ">> \o LabelA >>
    /\ DOMAIN report.faits_deduits =
          { LabelB \o <<" --[">> \o <<"rel">> \o <<"]--> ">> \o LabelA,
            LabelA \o <<" --[">> \o <<"label">> \o <<"]--> ">> \o <<"\"">> \o LabelA \o <<"\"">>,
            LabelB \o <<" --[">> \o <<"label">> \o <<"]--> ">> \o <<"\"">> \o LabelB \o <<"\"">> }

-----------------------------------------------------------------------------
(* Symmetry of the search, checked under SpecPath *)

\* C29: for distinct A and B the search from A to B returns None exactly
\* when the search from B to A on the same graph returns None, and when both
\* return a path the two paths have the same number of hops.
C29_ReachabilitySymmetric ==
    (SearchReturned /\ start_node # end_node)
        => \A back \in AloneResults(graph, EnteredFrame(end_node, start_node)) :
              /\ back.found = result.found
              /\ result.found => Len(back.hops) = Len(result.hops)

\* C29 witness: on A -> C -> B the search from A to B returned the two hops
\* with their edges, and the search from B to A returns the same two triples
\* against their edges, in the opposite order.
C29_Witness ==
    /\ SearchReturned
    /\ graph = {<<EntA, rel, EntC>>, <<EntC, rel, EntB>>}
    /\ start_node = EntA /\ end_node = EntB
    /\ result = Some(<< <<EntA, rel, EntC>>, <<EntC, rel, EntB>> >>)
    /\ AloneResults(graph, EnteredFrame(EntB, EntA))
          = {Some(<< <<EntC, rel, EntB>>, <<EntA, rel, EntC>> >>)}

-----------------------------------------------------------------------------
(* The empty path in a query, checked under Spec *)

\* C30: find_reasoning_path never calls _find_shortest_path with a start
\* node equal to the end node, so no search of a query returns the empty path
\* and the test  if path_found  is true exactly when a path was returned;
\* and when the path list of the report is not empty, at least two entities
\* were resolved and the fact list is not empty.
C30_NoSelfPair ==
    caller = "query"
        => /\ calls > 0 => start_node # end_node
           /\ result # Some(<<>>)
           /\ Truthy(path_found) <=> path_found.found
           /\ (QueryDone /\ report.chemin_trouve # <<>>)
                 => /\ Len(initial_entities) >= 2
                    /\ DOMAIN report.faits_deduits # {}

\* C30 witness: B and A are resolved in this order and joined through C; the
\* one search ran from B to A and the report has the two hops and the facts.
C30_Witness ==
    /\ QueryDone
    /\ initial_entities = <<EntB, EntA>>
    /\ calls = 1
    /\ start_node = EntB /\ end_node = EntA
    /\ Len(report.chemin_trouve) = 2
    /\ DOMAIN report.faits_deduits # {}

-----------------------------------------------------------------------------
(* generate_response_from_reasoning_path, src/llm/llm_response_generator.py.

   The argument is the report of a query; the prompt built from its question
   and its facts (lines 20-42) goes into the request and has no part in what
   the function returns.  The call of call_hf_inference_api is made of the
   steps HfNoToken, HfPost and HfAnswer above, in the environment hf_call
   holds. *)

\* line 8
DEFAULT_ERROR_RESPONSE ==
    <<"J", "e", " ", "s", "u", "i", "s", " ", "d", "é", "s", "o", "l", "é", ",", " ",
      "j", "e", " ", "n", "e", " ", "p", "e", "u", "x", " ", "p", "a", "s", " ", "t",
      "r", "a", "i", "t", "e", "r", " ", "c", "e", "t", "t", "e", " ", "d", "e", "m",
      "a", "n", "d", "e", " ", "p", "o", "u", "r", " ", "l", "e", " ", "m", "o", "m",
      "e", "n", "t", " ", "e", "n", " ", "r", "a", "i", "s", "o", "n", " ", "d", "'",
      "u", "n", " ", "p", "r", "o", "b", "l", "è", "m", "e", " ", "t", "e", "c", "h",
      "n", "i", "q", "u", "e", ".">>

\* line 18
NoFactMessage ==
    <<"L", "e", " ", "r", "a", "i", "s", "o", "n", "n", "e", "u", "r", " ", "n", "'",
      "a", " ", "t", "r", "o", "u", "v", "é", " ", "a", "u", "c", "u", "n", " ", "f",
      "a", "i", "t", " ", "p", "e", "r", "t", "i", "n", "e", "n", "t", " ", "d", "a",
      "n", "s", " ", "l", "'", "o", "n", "t", "o", "l", "o", "g", "i", "e", " ", "p",
      "o", "u", "r", " ", "r", "é", "p", "o", "n", "d", "r", "e", ".">>

\* line 57: the prefix cut off a generated text
ExpertPrefix ==
    <<"r", "é", "p", "o", "n", "s", "e", " ", "d", "'", "e", "x", "p", "e", "r", "t",
      ":">>

\* str.startswith
startswith(text, prefix) ==
    Len(text) >= Len(prefix) /\ SubSeq(text, 1, Len(prefix)) = prefix

\* lines 52-59
clean_llm_nl_response(llm_output) ==
    IF llm_output = <<>> THEN <<>>
    ELSE LET cleaned_response == strip(llm_output)
         IN  IF startswith(lower(cleaned_response), ExpertPrefix)
             THEN strip(SubSeq(cleaned_response, Len(ExpertPrefix) + 1,
                               Len(cleaned_response)))
             ELSE cleaned_response

\* Mutant: the test of line 17 is missing
no_deduced_facts_never(reasoning_result) == FALSE

\* lines 15-17:  not reasoning_result.get("faits_deduits", [])
no_deduced_facts(reasoning_result) ==
    \/ "faits_deduits" \notin DOMAIN reasoning_result
    \/ DOMAIN reasoning_result.faits_deduits = {}

OneFact == <<"A", "a", " ", "-", "-", "[", "r", "e", "l", "]", "-", "-", ">", " ", "b">>
OtherFact == <<"b", " ", "-", "-", "[", "l", "a", "b", "e", "l", "]", "-", "-", ">", " ", "\"", "b", "\"">>

\* the reports the function is called with: the all-empty report of a question
\* with no entity, a dict without the key faits_deduits, reports with facts
ReasoningResults ==
    {EmptyReport(<<"z">>),
     [question |-> <<"z">>],
     [question |-> <<"a", "a">>, entites_initiales |-> <<LabelA>>,
      chemin_trouve |-> <<>>, faits_deduits |-> Unordered(<<OtherFact>>)],
     [question |-> <<"a", "a", "b">>, entites_initiales |-> <<LabelA, LabelB>>,
      chemin_trouve |-> <<OneFact>>,
      faits_deduits |-> Unordered(<<OneFact, OtherFact>>)]}

\* the replies of the API: those of Replies, and generated texts with the
\* prefix of line 57 and of white space only
RespondReplies ==
    Replies
      \cup {[transport |-> "response", status_code |-> 200,
             body |-> Body("list_dict", {"generated_text"}, "str", text)] :
               text \in {<<"R", "é", "p", "o", "n", "s", "e", " ", "d", "'", "E", "x", "p",
                          "e", "r", "t", ":", " ", "o", "k", " ">>,
                         <<" ", "\n">>}}

InitRespond ==
    /\ \E reasoning_result \in ReasoningResults :
         response = [pc |-> "call", reasoning_result |-> reasoning_result,
                     llm_calls |-> 0, ended |-> ReturnsNone]
    /\ \E hf_token \in {"unset", "empty", "set"} :
         \E reply \in RespondReplies :
            hf_call = [pc |-> "idle", hf_token |-> hf_token, reply |-> reply,
                       requests_sent |-> 0, ended |-> ReturnsNone]
    /\ graph = {}
    /\ question = <<>>
    /\ pc = "respond"
    /\ caller = "respond"
    /\ initial_entities = <<>>
    /\ pair_index = 0
    /\ start_node = EntA
    /\ end_node = EntA
    /\ queue = <<>>
    /\ visited = {}
    /\ result = None
    /\ path_found = None
    /\ all_facts_triplets = {}
    /\ regime = "none"
    /\ report = NoReport
    /\ calls = 0
    /\ scans = 0
    /\ visits = NoVisits
    /\ pipeline = NoPipeline
    /\ first = [done |-> FALSE, chemin_trouve |-> <<>>, faits_deduits |-> {}]
    /\ invocations = NoInvocation
    /\ retrieval = NoRetrieval

\* lines 14-45: the early return without facts, or the prompt and the call of
\* call_hf_inference_api
RespondCall ==
    /\ caller = "respond"
    /\ response.pc = "call"
    /\ IF no_deduced_facts(response.reasoning_result)
       THEN /\ response' = [response EXCEPT !.pc = "ended",
                                            !.ended = Returns(NoFactMessage)]
            /\ hf_call' = hf_call
       ELSE /\ response' = [response EXCEPT !.pc = "llm", !.llm_calls = @ + 1]
            /\ hf_call' = [hf_call EXCEPT !.pc = "call"]
    /\ UNCHANGED <<graph, question, pc, caller, initial_entities, pair_index,
                   start_node, end_node, queue, visited, result, path_found,
                   all_facts_triplets, regime, report, calls, scans, first,
                   invocations, retrieval, visits, pipeline>>

\* lines 45-50: the call has ended; an exception that leaves it leaves this
\* function too
RespondReturn ==
    /\ caller = "respond"
    /\ response.pc = "llm"
    /\ hf_call.pc = "ended"
    /\ LET generated_text == hf_call.ended
       IN  response' = [response EXCEPT
                !.pc = "ended",
                !.ended = CASE generated_text.outcome = "raised" -> Raises
                            [] generated_text.outcome = "none" ->
                                  Returns(DEFAULT_ERROR_RESPONSE)
                            [] OTHER ->
                                  Returns(clean_llm_nl_response(generated_text.text))]
    /\ UNCHANGED <<graph, question, pc, caller, initial_entities, pair_index,
                   start_node, end_node, queue, visited, result, path_found,
                   all_facts_triplets, regime, report, calls, scans, first,
                   invocations, retrieval, hf_call, visits, pipeline>>

NextRespond == RespondCall \/ HfNoToken \/ HfPost \/ HfAnswer \/ RespondReturn

SpecRespond == InitRespond /\ [][NextRespond]_vars

RespondEnded == caller = "respond" /\ response.pc = "ended"

\* C27: with an empty fact list, as in the all-empty report of a question
\* with no entity, the function makes no LLM call and returns the message of
\* line 18; with a non-empty fact list it makes exactly one LLM call, and it
\* returns DEFAULT_ERROR_RESPONSE when that call returns None.
C27_OneCallWhenFacts ==
    caller = "respond"
        => LET empty == \/ "faits_deduits" \notin DOMAIN response.reasoning_result
                        \/ DOMAIN response.reasoning_result.faits_deduits = {}
           IN  /\ response.llm_calls <= 1
               /\ empty => /\ response.llm_calls = 0
                           /\ hf_call.pc = "idle" /\ hf_call.requests_sent = 0
               /\ (RespondEnded /\ empty) => response.ended = Returns(NoFactMessage)
               /\ (RespondEnded /\ ~empty)
                     => /\ response.llm_calls = 1
                        /\ hf_call.pc = "ended"
                        /\ hf_call.ended = ReturnsNone
                              => response.ended = Returns(DEFAULT_ERROR_RESPONSE)

\* C27 witness: the report has two facts, the token is set and the API
\* answered 503 with a dict that has the key error: the one call returned None
\* and the function DEFAULT_ERROR_RESPONSE.
C27_Witness ==
    /\ RespondEnded
    /\ "faits_deduits" \in DOMAIN response.reasoning_result
    /\ DOMAIN response.reasoning_result.faits_deduits = {OneFact, OtherFact}
    /\ hf_call.hf_token = "set"
    /\ hf_call.reply.status_code = 503
    /\ hf_call.reply.body = Body("dict", {"error"}, "null", <<>>)
    /\ hf_call.requests_sent = 1
    /\ hf_call.ended = ReturnsNone
    /\ response.llm_calls = 1
    /\ response.ended = Returns(DEFAULT_ERROR_RESPONSE)

-----------------------------------------------------------------------------
(* main_pipeline, src/pipeline_cli.py.

   The functions main_pipeline calls, generate_sparql_query,
   execute_sparql_query and generate_natural_language_response, are taken by
   what they hand back: a query or None, a list of results or an exception, a
   text or None.  The environment of a run is the API key, the ontology file,
   the schema extracted from it and the question typed in. *)

\* line 24
MAX_SPARQL_ATTEMPTS == 2

\* Optional[str]
NoQuery == [is_none |-> TRUE, text |-> <<>>]
Query(text) == [is_none |-> FALSE, text |-> text]

\* bool(query): None and the empty string are false
QueryTruthy(query) == ~query.is_none /\ query.text # <<>>

\* str.upper()
upper(text) ==
    [i \in 1..Len(text) |->
        IF \E c \in DOMAIN UpperToLower : UpperToLower[c] = text[i]
        THEN CHOOSE c \in DOMAIN UpperToLower : UpperToLower[c] = text[i]
        ELSE text[i]]

\* Mutant: every query is taken for a SELECT query
is_select_query_always(sparql_query) == TRUE

\* line 127:  sparql_query.strip().upper().startswith("SELECT")
is_select_query(sparql_query) ==
    startswith(upper(strip(sparql_query.text)), <<"S", "E", "L", "E", "C", "T">>)

\* what generate_sparql_query hands back
GeneratedQueries ==
    {NoQuery,
     Query(<<>>),
     Query(<<" ">>),
     Query(<<"S", "E", "L", "E", "C", "T", " ", "?", "x">>),
     Query(<<" ", "s", "e", "l", "e", "c", "t", " ", "*", "\n">>),
     Query(<<"A", "S", "K", " ", "{", "}">>)}

\* what execute_sparql_query hands back: a list of results, or an exception
Executions ==
    {[raised |-> TRUE, results |-> <<>>],
     [raised |-> FALSE, results |-> <<>>],
     [raised |-> FALSE, results |-> << <<"r">> >>]}

\* what generate_natural_language_response hands back: None or "", the
\* default error text, an answer
FinalResponses == {<<>>, DEFAULT_ERROR_RESPONSE, <<"o", "k">>}

\* lines 107, 124, 139:  final_response if final_response else NL_DEFAULT_ERROR_RESPONSE
Final(final_response) ==
    [kind |-> "final",
     text |-> IF final_response # <<>> THEN final_response ELSE DEFAULT_ERROR_RESPONSE,
     raw |-> <<>>]

\* lines 145-152: the limited answer with the raw results, or the answer
LastPrint(final_response, sparql_results) ==
    IF final_response = <<>> \/ final_response = DEFAULT_ERROR_RESPONSE
    THEN [kind |-> "limited", text |-> DEFAULT_ERROR_RESPONSE, raw |-> sparql_results]
    ELSE [kind |-> "final", text |-> final_response, raw |-> <<>>]

NothingPrinted == [kind |-> "none", text |-> <<>>, raw |-> <<>>]

InitPipeline ==
    /\ \E api_key \in BOOLEAN, ontology_exists \in BOOLEAN,
          ontology_schema \in {"none", "empty", "text"},
          user_question \in {<<" ">>, <<"q">>} :
         pipeline = [pc |-> "start",
                     api_key |-> api_key, ontology_exists |-> ontology_exists,
                     ontology_schema |-> ontology_schema,
                     user_question |-> user_question,
                     attempt |-> 0, current_prompt_context |-> "",
                     sparql_query |-> NoQuery, sparql_results |-> <<>>,
                     generate_calls |-> 0, nl_calls |-> 0,
                     log |-> <<>>, printed |-> NothingPrinted]
    /\ graph = {}
    /\ question = <<>>
    /\ pc = "pipeline"
    /\ caller = "pipeline"
    /\ initial_entities = <<>>
    /\ pair_index = 0
    /\ start_node = EntA
    /\ end_node = EntA
    /\ queue = <<>>
    /\ visited = {}
    /\ result = None
    /\ path_found = None
    /\ all_facts_triplets = {}
    /\ regime = "none"
    /\ report = NoReport
    /\ calls = 0
    /\ scans = 0
    /\ visits = NoVisits
    /\ response = NoResponse
    /\ first = [done |-> FALSE, chemin_trouve |-> <<>>, faits_deduits |-> {}]
    /\ invocations = NoInvocation
    /\ retrieval = NoRetrieval
    /\ hf_call = NoCall

PipelineFrame ==
    UNCHANGED <<graph, question, pc, caller, initial_entities, pair_index,
                start_node, end_node, queue, visited, result, path_found,
                all_facts_triplets, regime, report, calls, scans, first,
                invocations, retrieval, hf_call, visits, response>>

\* line 84: the for loop goes to its next attempt, or ends when the range
\* is used up
NextAttempt(p) ==
    IF p.attempt + 1 <= MAX_SPARQL_ATTEMPTS
    THEN [p EXCEPT !.pc = "attempt", !.attempt = @ + 1]
    ELSE [p EXCEPT !.pc = "respond"]

\* lines 44-82: the checks before the loop and the question
PipelineStart ==
    /\ caller = "pipeline"
    /\ pipeline.pc = "start"
    /\ pipeline' =
          IF \/ ~pipeline.api_key
             \/ ~pipeline.ontology_exists
             \/ pipeline.ontology_schema = "none"
             \/ strip(pipeline.user_question) = <<>>
          THEN [pipeline EXCEPT !.pc = "ended"]
          ELSE NextAttempt(pipeline)
    /\ PipelineFrame

\* lines 84-110: an attempt calls generate_sparql_query, with the context of
\* the attempt before when there is one; a failed generation ends the run at
\* the last attempt and goes to the next attempt before
PipelineGenerates ==
    /\ caller = "pipeline"
    /\ pipeline.pc = "attempt"
    /\ \E generated_query_attempt \in GeneratedQueries :
         LET called == [pipeline EXCEPT
                 !.generate_calls = @ + 1,
                 !.log = Append(@, [query |-> generated_query_attempt,
                                    augmented |-> pipeline.attempt > 1
                                        /\ pipeline.current_prompt_context # "",
                                    execution |-> "none", results |-> <<>>])]
         IN  IF ~QueryTruthy(generated_query_attempt)
             THEN IF pipeline.attempt = MAX_SPARQL_ATTEMPTS
                  THEN \E final_response \in FinalResponses :
                         pipeline' = [called EXCEPT !.pc = "ended",
                                                    !.nl_calls = @ + 1,
                                                    !.printed = Final(final_response)]
                  ELSE pipeline' = NextAttempt(
                          [called EXCEPT !.current_prompt_context = "failed"])
             ELSE pipeline' = [called EXCEPT !.pc = "execute",
                                             !.sparql_query = generated_query_attempt]
    /\ PipelineFrame

\* lines 112-134: the query is executed; an exception ends the run with a
\* final answer; a SELECT query without results goes to the next attempt
\* when one remains; every other outcome leaves the loop
PipelineExecutes ==
    /\ caller = "pipeline"
    /\ pipeline.pc = "execute"
    /\ \E execution \in Executions :
         LET n == Len(pipeline.log)
             logged == [pipeline EXCEPT
                 !.log[n].execution = IF execution.raised THEN "raised" ELSE "returned",
                 !.log[n].results = execution.results]
         IN  IF execution.raised
             THEN \E final_response \in FinalResponses :
                    pipeline' = [logged EXCEPT !.pc = "ended",
                                               !.nl_calls = @ + 1,
                                               !.printed = Final(final_response)]
             ELSE LET ran == [logged EXCEPT !.sparql_results = execution.results]
                  IN  IF /\ is_select_query(pipeline.sparql_query)
                         /\ execution.results = <<>>
                         /\ pipeline.attempt < MAX_SPARQL_ATTEMPTS
                      THEN pipeline' = NextAttempt(
                              [ran EXCEPT !.current_prompt_context = "no_results"])
                      ELSE pipeline' = [ran EXCEPT !.pc = "respond"]
    /\ PipelineFrame

\* lines 136-154: the answer after the loop
PipelineResponds ==
    /\ caller = "pipeline"
    /\ pipeline.pc = "respond"
    /\ \E final_response \in FinalResponses :
         pipeline' = [pipeline EXCEPT
             !.pc = "ended",
             !.nl_calls = @ + 1,
             !.printed = IF ~QueryTruthy(pipeline.sparql_query)
                         THEN Final(final_response)
                         ELSE LastPrint(final_response, pipeline.sparql_results)]
    /\ PipelineFrame

NextPipeline ==
    PipelineStart \/ PipelineGenerates \/ PipelineExecutes \/ PipelineResponds

SpecPipeline == InitPipeline /\ [][NextPipeline]_vars

\* a SELECT query: its first word, after leading white space, is "select" in
\* any case
SelectQuery(query) ==
    LET text == lstrip(query.text)
    IN  /\ Len(text) >= 6
        /\ lower(SubSeq(text, 1, 6)) = <<"s", "e", "l", "e", "c", "t">>

\* the generation of an attempt failed: no query came back
FailedGeneration(entry) == entry.query.is_none \/ entry.query.text = <<>>

\* C28: generate_sparql_query is called at most MAX_SPARQL_ATTEMPTS times in a
\* run; an attempt is followed by another one only when its generation failed
\* or its query was a SELECT query that returned no result, and attempts
\* remained; a query that is no SELECT query or has results ends the loop at
\* once; an exception of the execution ends the run with a final answer and
\* no further attempt.
C28_AttemptLoop ==
    caller = "pipeline"
        => LET log == pipeline.log
           IN  /\ pipeline.generate_calls <= MAX_SPARQL_ATTEMPTS
               /\ pipeline.generate_calls = Len(log)
               /\ \A i \in 1..Len(log) :
                     /\ i < Len(log)
                           => /\ i < MAX_SPARQL_ATTEMPTS
                              /\ \/ FailedGeneration(log[i])
                                 \/ /\ SelectQuery(log[i].query)
                                    /\ log[i].execution = "returned"
                                    /\ log[i].results = <<>>
                     /\ (/\ log[i].execution = "returned"
                         /\ ~SelectQuery(log[i].query) \/ log[i].results # <<>>)
                           => /\ i = Len(log)
                              /\ pipeline.pc \in {"respond", "ended"}
                     /\ log[i].execution = "raised"
                           => /\ i = Len(log)
                              /\ pipeline.pc = "ended"
                              /\ pipeline.printed.kind = "final"
                              /\ pipeline.printed.text # <<>>

\* C28 witness: the first attempt gave a SELECT query without results, the
\* second attempt, made with the context of the first, a query whose
\* execution raised: the run ended with a final answer after two calls.
C28_Witness ==
    /\ caller = "pipeline"
    /\ pipeline.pc = "ended"
    /\ pipeline.generate_calls = 2
    /\ Len(pipeline.log) = 2
    /\ pipeline.log[1].query = Query(<<" ", "s", "e", "l", "e", "c", "t", " ", "*", "\n">>)
    /\ pipeline.log[1].execution = "returned" /\ pipeline.log[1].results = <<>>
    /\ pipeline.log[2].augmented
    /\ pipeline.log[2].execution = "raised"
    /\ pipeline.printed = Final(<<"o", "k">>)

====
